---- MODULE Spec2Model ----
(***************************************************************************)
(* Model of the GophKeeper server: the secrets service with its item,      *)
(* encrypted-data and key stores (envelope encryption over PostgreSQL),    *)
(* the authentication service with its user store, the token authority     *)
(* and the Auth middleware.                                                *)
(*                                                                         *)
(* Every database statement of a request is one step, so that concurrent   *)
(* requests interleave statement by statement.  PostgreSQL is modelled at  *)
(* READ COMMITTED: a transaction's writes are private until commit, an     *)
(* UPDATE takes the row lock until its transaction ends, NOW() is the      *)
(* start time of the transaction.                                          *)
(***************************************************************************)
EXTENDS Integers, Sequences, FiniteSets, TLC

VARIABLES
    \* ---- item plane (PostgreSQL tables, committed state)
    items,      \* items table: item id -> row
    encs,       \* encrypted_data table: item id -> row (UNIQUE item_id)
    keys,       \* encryption_keys table: user id -> key_encrypted
    lock,       \* item id -> request holding the row lock of an open UPDATE
    clock,      \* database clock
    nextId,     \* next value of uuid.New() for items
    pc,         \* request -> position in its handler
    req,        \* request -> the request being served
    loc,        \* request -> locals of the handler
    last,       \* the request answered in the last step, with its HTTP response
    nreq,       \* number of requests started
    mode,       \* "seq": requests never overlap; "conc": they interleave;
                \* "edge": both planes, with the requests the handlers refuse
    snaps,      \* history: every committed (item, payload) state of every item
    orig,       \* history: item id -> what the successful create stored
    touched,    \* history: ids whose payload was replaced or that were deleted
    \* ---- auth plane
    users,      \* users table: set of rows
    authResp,   \* the auth request answered in the last step, with its response
    nauth,      \* number of auth requests served
    \* ---- token plane
    now,        \* wall clock in ticks
    expiration, \* Generator.expiration in ticks
    issued,     \* history: token, subject and issue time of every GenerateToken call
    val,        \* the ValidateToken call of the last step, with its result
    mw,         \* the run of the Auth middleware in the last step
    \* ---- crypto package
    call,       \* a call of crypto.Decrypt: its arguments and, once made, its outcome
    \* ---- the server around the handlers
    ru,         \* the run of RequireUser in the last step
    app         \* App.Run: the main goroutine, the listener goroutine, the pool

itemVars == <<items, encs, keys, lock, clock, nextId, pc, req, loc, last, nreq,
              mode, snaps, orig, touched>>
authVars == <<users, authResp, nauth>>
tokVars  == <<now, expiration, issued, val, mw>>
cryptoVars == <<call>>
appVars == <<ru, app>>
vars     == <<itemVars, authVars, tokVars, cryptoVars, appVars>>

----------------------------------------------------------------------------
\* Bounds of the model.
MaxReqs  == 3      \* requests served in one behaviour of the item plane
MaxAuth  == 3      \* requests served in one behaviour of the auth plane
MaxTime  == 4      \* last tick of the wall clock
MaxTokens == 1     \* GenerateToken calls in one behaviour
MaxExpiration == 3 \* longest configured token lifetime, in ticks

Procs    == {"r1", "r2"}
Users    == {"u1", "u2"}
NoUser   == "nil"                    \* uuid.Nil
NeverId  == 0                        \* an id uuid.New() never returned
MasterKey == 0

\* HTTP status codes (net/http).
StatusOK == 200
StatusCreated == 201
StatusNoContent == 204
StatusBadRequest == 400
StatusUnauthorized == 401
StatusNotFound == 404
StatusConflict == 409
StatusInternalServerError == 500

----------------------------------------------------------------------------
\* pkg/crypto: AES-256-GCM.  A ciphertext opens under the key that sealed it
\* and under no other key.
NonceSize == 12
TagSize == 16
KeySize == 32

\* Keys are numbered: a key n >= 0 is one of the 32-byte keys (the master key
\* or a value of crypto.KeyGen), a key n < 0 is a byte string of -n bytes.
KeyLen(key) == IF key < 0 THEN -key ELSE KeySize

\* aes.NewCipher: the key sizes of AES-128, AES-192 and AES-256
aesNewCipher(key) == KeyLen(key) \in {16, 24, 32}

\* The byte strings handed to Decrypt, by what became of the value Encrypt
\* returned: "sealed" is that value (nonce, sealed plaintext, tag),
\* "modified" has a byte changed, "cut" is only its nonce, "short" lacks the
\* nonce's last byte, "empty" has no byte.
Forms == {"sealed", "modified", "cut", "short", "empty"}

\* crypto.Encrypt with the nonce rand.Reader gave: (nil, err) for a key that
\* aes.NewCipher refuses, else (nonce, sealed plaintext, tag).  Two calls
\* never draw the same nonce, so no two calls return the same bytes.
Encrypt(key, plaintext, nonce) ==
    IF ~aesNewCipher(key)
      THEN [ok |-> FALSE,
            ct |-> [k |-> key, pt |-> plaintext, form |-> "empty", nonce |-> nonce]]
      ELSE [ok |-> TRUE,
            ct |-> [k |-> key, pt |-> plaintext, form |-> "sealed", nonce |-> nonce]]

\* len() of a ciphertext whose plaintext has `size` bytes
CtBytes(ciphertext, size) ==
    CASE ciphertext.form = "empty" -> 0
      [] ciphertext.form = "short" -> NonceSize - 1
      [] ciphertext.form = "cut" -> NonceSize
      [] OTHER -> NonceSize + size + TagSize

\* The outcomes of Decrypt: (plaintext, nil), (nil, err), and the run-time
\* panic of a slice expression out of range.
DecryptError == [ok |-> FALSE, panic |-> FALSE, pt |-> <<>>]
DecryptPanic == [ok |-> FALSE, panic |-> TRUE, pt |-> <<>>]

\* crypto.Decrypt.  ciphertext[nonceSize:] is out of range whenever the
\* ciphertext is shorter than the nonce, whatever its plaintext was.
Decrypt(key, ciphertext) ==
    IF ~aesNewCipher(key) THEN DecryptError
    ELSE IF CtBytes(ciphertext, 0) < NonceSize THEN DecryptPanic
    ELSE IF ciphertext.form = "sealed" /\ ciphertext.k = key
      THEN [ok |-> TRUE, panic |-> FALSE, pt |-> ciphertext.pt]
    ELSE DecryptError

\* len() of a ciphertext holding a byte-string plaintext
CtLen(ciphertext) == CtBytes(ciphertext, Len(ciphertext.pt))

\* the mutant: the loaded key record always counts as empty
KeyCtLenZero(ciphertext) == 0

\* len() of a ciphertext holding a key
KeyCtLen(ciphertext) == CtBytes(ciphertext, KeySize)

----------------------------------------------------------------------------
\* encoding/base64 strings: "" is what EncodeToString gives for the empty
\* byte string; a text of line breaks alone ("\n") is not empty and decodes
\* to the empty byte string as well, since DecodeString skips line breaks.
Payloads == {<<>>, <<1>>, <<2>>}
B64(bytes) == [enc |-> "b64", bytes |-> bytes]
BadB64 == [enc |-> "bad", bytes |-> <<>>]
EmptyString == B64(<<>>)
LineBreak == [enc |-> "line break", bytes |-> <<>>]

\* services.decodeBase64
decodeBase64(data) ==
    IF data = EmptyString THEN [ok |-> TRUE, bytes |-> <<>>]
    ELSE IF data.enc \in {"b64", "line break"} THEN [ok |-> TRUE, bytes |-> data.bytes]
    ELSE [ok |-> FALSE, bytes |-> <<>>]

\* the mutant: no check of the type
isValidTypeAny(t) == TRUE

\* services.isValidType
isValidType(t) == t \in {"credential", "text", "binary", "card"}

\* A *T of Go: nil or a value.
Nil(v) == [has |-> FALSE, val |-> v]
Some(v) == [has |-> TRUE, val |-> v]

\* COALESCE($n, column)
Coalesce(opt, column) == IF opt.has THEN opt.val ELSE column

----------------------------------------------------------------------------
\* Values of the item plane.
NoItem == [id |-> NeverId, user_id |-> NoUser, type |-> "", title |-> "",
           metadata |-> "", created_at |-> 0, updated_at |-> 0]
NoCt == [k |-> MasterKey, pt |-> <<>>, form |-> "empty", nonce |-> <<>>]
NoKeyCt == [k |-> MasterKey, pt |-> MasterKey, form |-> "empty", nonce |-> <<>>]
NoEnc == [has |-> FALSE, id |-> NeverId, data_encrypted |-> NoCt, data_key_encrypted |-> NoKeyCt]
\* http: the Content-Type header in its parts, the body as text, the {id} of
\* the path
NoReq == [n |-> 0, op |-> "none", user |-> NoUser, id |-> NeverId, type |-> Nil(""),
          title |-> Nil(""), metadata |-> Nil(""), data |-> Nil(EmptyString),
          http |-> [ct |-> <<>>, body |-> "", path |-> <<>>]]
NoLoc == [userKey |-> MasterKey, enc |-> NoEnc, payload |-> <<>>, txTime |-> 0,
          item |-> NoItem, wrote |-> FALSE, after |-> "none"]
NoResp == [status |-> 0, item |-> NoItem, data |-> EmptyString, err |-> "",
           items |-> <<>>]

\* A response: the status and the body the client receives, and the error the
\* handler logs (never sent to the client).
Response(status, item, data) ==
    [status |-> status, item |-> item, data |-> data, err |-> "", items |-> <<>>]
ErrorResponse(status) == Response(status, NoItem, EmptyString)
LoggedError(status, err) ==
    [status |-> status, item |-> NoItem, data |-> EmptyString, err |-> err,
     items |-> <<>>]
\* The handler panicked: net/http recovers, logs the panic and closes the
\* connection, and the client receives no response.
Aborted == [NoResp EXCEPT !.err = "panic"]
\* a transient failure of the store in the statement the request is at
StoreFailure(p) == LoggedError(StatusInternalServerError, pc[p])

\* The inputs the requests are drawn from.
CreateData ==
    IF mode = "edge" THEN {B64(<<1>>)}
    ELSE IF mode = "seq" THEN {EmptyString, B64(<<1>>), BadB64, LineBreak}
    ELSE {EmptyString, B64(<<1>>), BadB64}
UpdateBody(ty, ti, md, d) == [type |-> ty, title |-> ti, metadata |-> md, data |-> d]
UpdateBodies ==
    { UpdateBody(Nil(""), Nil(""), Nil(""), Nil(EmptyString)),
      UpdateBody(Nil(""), Some("t2"), Nil(""), Nil(EmptyString)),
      UpdateBody(Nil(""), Nil(""), Some("m2"), Nil(EmptyString)),
      UpdateBody(Nil(""), Nil(""), Nil(""), Some(B64(<<2>>))),
      UpdateBody(Nil(""), Some("t2"), Nil(""), Some(B64(<<2>>))),
      UpdateBody(Nil(""), Nil(""), Nil(""), Some(EmptyString)),
      UpdateBody(Nil(""), Nil(""), Nil(""), Some(LineBreak)),
      UpdateBody(Nil(""), Nil(""), Nil(""), Some(BadB64)),
      UpdateBody(Some("bogus"), Nil(""), Nil(""), Nil(EmptyString)) }

\* Bodies that set the metadata fields alone: another type, an empty title
\* with a new metadata, an empty metadata.
FieldBodies ==
    { UpdateBody(Some("card"), Nil(""), Nil(""), Nil(EmptyString)),
      UpdateBody(Nil(""), Some(""), Some("m2"), Nil(EmptyString)),
      UpdateBody(Nil(""), Nil(""), Some(""), Nil(EmptyString)) }

\* The users that send requests: both in the sequential histories, one in the
\* concurrent ones, whose races are those of one user's requests.
Clients == IF mode = "seq" THEN Users ELSE {"u1"}

\* The ids requests name: those a successful create returned (deleted or not)
\* and one that no create ever returned.
KnownIds == {NeverId} \cup DOMAIN orig

\* The update bodies of the requests: the sequential histories also carry the
\* bodies that set metadata fields alone; the other histories carry the
\* bodies that reach the store, those the first step refuses and the text
\* of line breaks left aside; the
\* histories of the handlers' boundary carry the body without a field, a
\* title and a payload.
Bodies ==
    IF mode = "seq" THEN UpdateBodies \cup FieldBodies
    ELSE IF mode = "edge"
      THEN { UpdateBody(Nil(""), Nil(""), Nil(""), Nil(EmptyString)),
             UpdateBody(Nil(""), Some("t2"), Nil(""), Nil(EmptyString)),
             UpdateBody(Nil(""), Nil(""), Nil(""), Some(B64(<<2>>))) }
    ELSE {b \in UpdateBodies :
            /\ b.type.has \/ b.title.has \/ b.metadata.has \/ b.data.has
            /\ b.type.has => isValidType(b.type.val)
            /\ decodeBase64(b.data.val).ok
            /\ b.data.val # LineBreak}

\* What the requests arrive in: a Content-Type header and a body that is the
\* JSON text of the fields or no JSON at all.  The histories of the handlers'
\* boundary carry the headers without application/json and the bodies that
\* do not decode; the other histories carry the requests that pass.
Envelopes ==
    IF mode = "edge"
      THEN {[ct |-> c, body |-> "json"] :
              c \in {<<"application/json">>, <<"application/json", "; charset=utf-8">>,
                     <<"text/plain">>, <<>>}}
           \cup {[ct |-> <<"application/json">>, body |-> "invalid json"]}
      ELSE {[ct |-> <<"application/json">>, body |-> "json"]}

\* The {id} of the paths: the text of an id (uuid.UUID.String), or a text
\* that is no UUID.
Paths ==
    {<<"uuid", i>> : i \in KnownIds}
        \cup (IF mode = "edge" THEN {<<"invalid-uuid">>} ELSE {})

\* the mutant: any Content-Type passes
isJSONAny(ct) == TRUE

\* handlers.isJSON: strings.Contains(Content-Type, "application/json")
isJSON(ct) == \E k \in 1..Len(ct) : ct[k] = "application/json"

\* validators.ItemValidator.ValidateUUID: uuid.Parse of the path's {id}
ValidateUUID(path) ==
    IF Len(path) = 2 /\ path[1] = "uuid"
      THEN [ok |-> TRUE, id |-> path[2]]
      ELSE [ok |-> FALSE, id |-> NeverId]

\* The request as a handler knows it before it has read the body.
Unread(op, u, h, path) ==
    [NoReq EXCEPT !.n = nreq + 1, !.op = op, !.user = u,
                  !.http = [ct |-> h.ct, body |-> h.body, path |-> path]]

Idle(p) == pc[p] = "idle"

\* A request may start when the budget allows and, in a sequential history,
\* when no other request is in flight.  The request slots are interchangeable:
\* a request takes r2 only while r1 is busy.
MayStart(p) ==
    /\ Idle(p)
    /\ nreq < MaxReqs
    /\ mode # "conc" => \A q \in Procs : Idle(q)
    /\ mode = "edge" => nreq + nauth < MaxReqs
    /\ p = "r2" => ~Idle("r1")

\* The payload a stored encrypted-data row holds (for the history variables).
PlainOf(e) == e.data_encrypted.pt

\* The committed (item, payload) state of item i.
Snapshot(its, ens, i) ==
    [item |-> its[i], data |-> IF i \in DOMAIN ens THEN PlainOf(ens[i]) ELSE <<>>]

Drop(f, i) == [j \in DOMAIN f \ {i} |-> f[j]]
Put(f, i, v) == [j \in DOMAIN f \cup {i} |-> IF j = i THEN v ELSE f[j]]

----------------------------------------------------------------------------
\* The item plane.

NoLast == [req |-> NoReq, resp |-> NoResp]

\* No request is answered in this step.
Quiet == last' = NoLast

\* The request ends with this response.
Answer(p, rq, r) ==
    /\ pc' = [pc EXCEPT ![p] = "idle"]
    /\ req' = [req EXCEPT ![p] = NoReq]
    /\ loc' = [loc EXCEPT ![p] = NoLoc]
    /\ last' = [req |-> rq, resp |-> r]

Finish(p, r) == Answer(p, req[p], r)

\* Every statement a request sends to the store may fail (an error of the
\* connection or of the server that is not pgx.ErrNoRows).
Faults(p) == BOOLEAN

\* The request goes on to the statement at `to`.
Goto(p, to) ==
    /\ pc' = [pc EXCEPT ![p] = to]
    /\ UNCHANGED req
    /\ Quiet

\* crypto.KeyGen, uuid.New and the nonces of crypto.Encrypt are values nobody
\* has seen before: the n-th request draws its user key, its data key, its
\* encrypted-data id and its nonces from n.
NewUserKey(n) == 2 * n - 1
NewDataKey(n) == 2 * n
NewEncId(n) == n

\* the mutant: the row is looked up by id alone
OwnsAnyUser(its, u, i) == i \in DOMAIN its

\* WHERE id = $1 AND user_id = $2
Owns(its, u, i) == i \in DOMAIN its /\ its[i].user_id = u

\* the mutant: the data key is sealed under the master key
SealPayloadUnderMaster(p, userKey) ==
    LET dataKey == NewDataKey(req[p].n)
        dataEncrypted == Encrypt(dataKey, loc[p].payload, <<req[p].n, "data">>)
        dataKeyEncrypted == Encrypt(MasterKey, dataKey, <<req[p].n, "data key">>) IN
    IF ~dataEncrypted.ok \/ ~dataKeyEncrypted.ok
      THEN Finish(p, LoggedError(StatusInternalServerError, "encrypt"))
      ELSE /\ loc' = [loc EXCEPT ![p].userKey = userKey,
                                 ![p].enc = [has |-> TRUE, id |-> NewEncId(req[p].n),
                                             data_encrypted |-> dataEncrypted.ct,
                                             data_key_encrypted |-> dataKeyEncrypted.ct]]
           /\ Goto(p, "tx_begin")

\* Create and Update of the service, after loadOrCreateKey returned userKey:
\* a fresh data key seals the payload and is itself sealed under the user key.
SealPayload(p, userKey) ==
    LET dataKey == NewDataKey(req[p].n)
        dataEncrypted == Encrypt(dataKey, loc[p].payload, <<req[p].n, "data">>)
        dataKeyEncrypted == Encrypt(userKey, dataKey, <<req[p].n, "data key">>) IN
    IF ~dataEncrypted.ok \/ ~dataKeyEncrypted.ok
      THEN Finish(p, LoggedError(StatusInternalServerError, "encrypt"))
      ELSE /\ loc' = [loc EXCEPT ![p].userKey = userKey,
                                 ![p].enc = [has |-> TRUE, id |-> NewEncId(req[p].n),
                                             data_encrypted |-> dataEncrypted.ct,
                                             data_key_encrypted |-> dataKeyEncrypted.ct]]
           /\ Goto(p, "tx_begin")

\* handlers.ItemHandler.GetItem: an error of the service that is not
\* ErrItemNotFound
GetFailureStatus == StatusInternalServerError

\* GetItem of the service, after loadOrCreateKey returned userKey: unwrap the
\* data key, then open the payload.
OpenPayload(p, userKey) ==
    LET dk == Decrypt(userKey, loc[p].enc.data_key_encrypted)
        pl == Decrypt(dk.pt, loc[p].enc.data_encrypted)
    IN  IF dk.panic THEN Finish(p, Aborted)
        ELSE IF ~dk.ok THEN Finish(p, LoggedError(GetFailureStatus, "decrypt"))
        ELSE IF pl.panic THEN Finish(p, Aborted)
        ELSE IF ~pl.ok THEN Finish(p, LoggedError(GetFailureStatus, "decrypt"))
        ELSE Finish(p, Response(StatusOK, loc[p].item, B64(pl.pt)))

AfterKey(p, userKey) ==
    IF loc[p].after = "get" THEN OpenPayload(p, userKey) ELSE SealPayload(p, userKey)

\* handlers.ItemHandler.CreateItem / UpdateItem: an error of the service that
\* is not ErrInvalidItemType, such as the one decodeBase64 returns
DecodeFailureStatus == StatusInternalServerError

\* handlers.ItemHandler.CreateItem down to the first store call of
\* services.ItemService.CreateItem.
CreateItem(p) ==
    /\ MayStart(p)
    /\ \E u \in Clients, h \in Envelopes,
          ty \in (IF mode \in {"seq", "edge"} THEN {"text", "bogus", ""} ELSE {"text", "bogus"}),
          ti \in (IF mode = "edge" THEN {"t1", ""} ELSE {"t1"}),
          md \in {"m1"}, d \in CreateData :
        LET dec == decodeBase64(d)
            rq == [Unread("create", u, h, <<>>) EXCEPT
                     !.id = nextId, !.type = Some(ty), !.title = Some(ti),
                     !.metadata = Some(md), !.data = Some(d)] IN
        IF ~isJSON(h.ct) \/ h.body # "json"
          THEN /\ Answer(p, Unread("create", u, h, <<>>), ErrorResponse(StatusBadRequest))
               /\ UNCHANGED nextId
        ELSE IF ty = "" \/ ti = "" \/ ~isValidType(ty)
          THEN /\ Answer(p, [rq EXCEPT !.id = NeverId], ErrorResponse(StatusBadRequest))
               /\ UNCHANGED nextId
        ELSE IF ~dec.ok
          THEN /\ Answer(p, [rq EXCEPT !.id = NeverId], LoggedError(DecodeFailureStatus, "decode"))
               /\ UNCHANGED nextId
        ELSE /\ nextId' = nextId + 1
             /\ req' = [req EXCEPT ![p] = rq]
             /\ loc' = [loc EXCEPT ![p] = [NoLoc EXCEPT !.payload = dec.bytes, !.after = "tx"]]
             /\ pc' = [pc EXCEPT ![p] = IF Len(dec.bytes) > 0 THEN "key_load" ELSE "tx_begin"]
             /\ Quiet
    /\ nreq' = nreq + 1
    /\ UNCHANGED <<items, encs, keys, lock, clock, mode, snaps, orig, touched>>
    /\ UNCHANGED <<authVars, tokVars, cryptoVars, appVars>>

\* the mutant: a data_base64 that is present counts as a payload
CarriesWhenPresent(b) == b.data.has

\* services.ItemService.UpdateItem: req.DataBase64 != nil && len(*req.DataBase64) > 0
Carries(b) == b.data.has /\ b.data.val # EmptyString

\* handlers.ItemHandler.UpdateItem down to the first store call of
\* services.ItemService.UpdateItem.
UpdateItem(p) ==
    /\ MayStart(p)
    /\ \E u \in Clients, h \in Envelopes, path \in Paths, b \in Bodies :
        LET carries == Carries(b)
            dec == decodeBase64(b.data.val)
            rq == [Unread("update", u, h, path) EXCEPT
                     !.id = ValidateUUID(path).id, !.type = b.type, !.title = b.title,
                     !.metadata = b.metadata, !.data = b.data] IN
        IF ~isJSON(h.ct) \/ ~ValidateUUID(path).ok \/ h.body # "json"
          THEN Answer(p, Unread("update", u, h, path), ErrorResponse(StatusBadRequest))
        ELSE IF ~b.type.has /\ ~b.title.has /\ ~b.metadata.has /\ ~b.data.has
          THEN Answer(p, rq, ErrorResponse(StatusBadRequest))
        ELSE IF b.type.has /\ ~isValidType(b.type.val)
          THEN Answer(p, rq, ErrorResponse(StatusBadRequest))
        ELSE IF carries /\ ~dec.ok
          THEN Answer(p, rq, LoggedError(DecodeFailureStatus, "decode"))
        ELSE /\ req' = [req EXCEPT ![p] = rq]
             /\ loc' = [loc EXCEPT ![p] = [NoLoc EXCEPT !.payload = dec.bytes, !.after = "tx"]]
             /\ pc' = [pc EXCEPT ![p] = IF carries THEN "key_load" ELSE "tx_begin"]
             /\ Quiet
    /\ nreq' = nreq + 1
    /\ UNCHANGED <<items, encs, keys, lock, clock, nextId, mode, snaps, orig, touched>>
    /\ UNCHANGED <<authVars, tokVars, cryptoVars, appVars>>

\* services.ItemService.loadOrCreateKey: keyRepo.Load, and the key when the
\* record exists.
KeyLoad(p) ==
    /\ pc[p] = "key_load"
    /\ \E fail \in Faults(p) :
        LET u == req[p].user
            d == Decrypt(MasterKey, keys[u]) IN
        IF fail
          THEN Finish(p, StoreFailure(p))
        ELSE IF u \in DOMAIN keys /\ KeyCtLen(keys[u]) > 0
          THEN IF d.panic THEN Finish(p, Aborted)
               ELSE IF d.ok THEN AfterKey(p, d.pt)
               ELSE Finish(p, LoggedError(StatusInternalServerError, "unwrap"))
        ELSE /\ loc' = [loc EXCEPT ![p].userKey = NewUserKey(req[p].n)]
             /\ Goto(p, "key_save")
    /\ UNCHANGED <<items, encs, keys, lock, clock, nextId, nreq, mode, snaps, orig, touched>>
    /\ UNCHANGED <<authVars, tokVars, cryptoVars, appVars>>

\* the mutant: INSERT ... ON CONFLICT (user_id) DO NOTHING
SaveKeepFirst(ks, u, enc) == IF u \in DOMAIN ks THEN ks ELSE Put(ks, u, enc)

\* repositories.KeyRepository.Save: upsert on user_id
Save(ks, u, enc) == Put(ks, u, enc)

\* services.ItemService.loadOrCreateKey: keyRepo.Save of the new key.
KeySave(p) ==
    /\ pc[p] = "key_save"
    /\ \E fail \in Faults(p) :
        LET enc == Encrypt(MasterKey, loc[p].userKey, <<req[p].n, "user key">>) IN
        IF ~enc.ok
          THEN /\ Finish(p, LoggedError(StatusInternalServerError, "encrypt"))
               /\ UNCHANGED keys
        ELSE IF fail
          THEN /\ Finish(p, StoreFailure(p))
               /\ UNCHANGED keys
          ELSE /\ keys' = Save(keys, req[p].user, enc.ct)
               /\ AfterKey(p, loc[p].userKey)
    /\ UNCHANGED <<items, encs, lock, clock, nextId, nreq, mode, snaps, orig, touched>>
    /\ UNCHANGED <<authVars, tokVars, cryptoVars, appVars>>

\* The locks left when request p's transaction ends.
Released(p) == [i \in {j \in DOMAIN lock : lock[j] # p} |-> lock[i]]

\* the mutant: the statements run on the pool, outside the transaction, so
\* the item statement stays when a later step fails
KeptOnRollbackNoTx(its, l) == IF l.wrote THEN Put(its, l.item.id, l.item) ELSE its

\* What the items table holds after the transaction was rolled back.
KeptOnRollback(its, l) == its

\* The deferred rollback of Create and Update: the transaction's writes are
\* dropped and its row lock is released.
Rollback(p, r) ==
    /\ Finish(p, r)
    /\ lock' = Released(p)
    /\ items' = KeptOnRollback(items, loc[p])

\* repositories.ItemRepository.Create / Update: db.Begin.
TxBegin(p) ==
    /\ pc[p] = "tx_begin"
    /\ \E fail \in Faults(p) :
        IF fail
          THEN /\ Finish(p, StoreFailure(p))
               /\ UNCHANGED clock
          ELSE /\ loc' = [loc EXCEPT ![p].txTime = clock]
               /\ clock' = clock + 1
               /\ Goto(p, "tx_item")
    /\ UNCHANGED <<items, encs, keys, lock, nextId, nreq, mode, snaps, orig, touched>>
    /\ UNCHANGED <<authVars, tokVars, cryptoVars, appVars>>

\* the mutant: every column is overwritten with the request's value
UpdatedRowOverwrite(row, r, t) ==
    [row EXCEPT !.type = r.type.val, !.title = r.title.val,
                !.metadata = r.metadata.val, !.updated_at = t]

\* UPDATE items SET type = COALESCE($3, type), title = COALESCE($4, title),
\* metadata = COALESCE($5, metadata), updated_at = NOW()
UpdatedRow(row, r, t) ==
    [row EXCEPT !.type = Coalesce(r.type, row.type),
                !.title = Coalesce(r.title, row.title),
                !.metadata = Coalesce(r.metadata, row.metadata),
                !.updated_at = t]

\* INSERT INTO items ... RETURNING created_at, updated_at
InsertedRow(r, t) ==
    [id |-> r.id, user_id |-> r.user, type |-> r.type.val, title |-> r.title.val,
     metadata |-> r.metadata.val, created_at |-> t, updated_at |-> t]

\* The item statement of the transaction.
TxItem(p) ==
    /\ pc[p] = "tx_item"
    /\ LET r == req[p]
           to == IF loc[p].enc.has THEN "tx_enc" ELSE "tx_commit" IN
       \E fail \in Faults(p) :
        IF fail
          THEN Rollback(p, StoreFailure(p))
        ELSE IF r.op = "create"
          THEN /\ loc' = [loc EXCEPT ![p].item = InsertedRow(r, loc[p].txTime),
                                     ![p].wrote = TRUE]
               /\ Goto(p, to)
               /\ UNCHANGED <<lock, items>>
        ELSE IF ~Owns(items, r.user, r.id)
          THEN Rollback(p, ErrorResponse(StatusNotFound))
        ELSE /\ r.id \notin DOMAIN lock
             /\ loc' = [loc EXCEPT ![p].item = UpdatedRow(items[r.id], r, loc[p].txTime),
                                   ![p].wrote = TRUE]
             /\ lock' = Put(lock, r.id, p)
             /\ Goto(p, to)
             /\ UNCHANGED items
    /\ UNCHANGED <<encs, keys, clock, nextId, nreq, mode, snaps, orig, touched>>
    /\ UNCHANGED <<authVars, tokVars, cryptoVars, appVars>>

\* The encrypted-data statement of the transaction: INSERT in Create, INSERT
\* ... ON CONFLICT (item_id) DO UPDATE SET data_encrypted, data_key_encrypted
\* in Update, which keeps the id of the row it finds.
TxEnc(p) ==
    /\ pc[p] = "tx_enc"
    /\ \E fail \in Faults(p) :
        IF fail
          THEN Rollback(p, StoreFailure(p))
          ELSE /\ loc' = [loc EXCEPT ![p].enc.id =
                             IF req[p].id \in DOMAIN encs THEN encs[req[p].id].id
                                                          ELSE loc[p].enc.id]
               /\ Goto(p, "tx_commit")
               /\ UNCHANGED <<lock, items>>
    /\ UNCHANGED <<encs, keys, clock, nextId, nreq, mode, snaps, orig, touched>>
    /\ UNCHANGED <<authVars, tokVars, cryptoVars, appVars>>

EncRow(e) == [id |-> e.id, data_encrypted |-> e.data_encrypted,
              data_key_encrypted |-> e.data_key_encrypted]

\* the mutant: ON CONFLICT (item_id) DO NOTHING
UpsertEncDoNothing(ens, i, e) == IF i \in DOMAIN ens THEN ens ELSE Put(ens, i, EncRow(e))

\* What the encrypted-data statement leaves in the table (item_id is UNIQUE):
\* the row of item i is inserted or, on conflict, replaced.
UpsertEnc(ens, i, e) == Put(ens, i, EncRow(e))

\* tx.Commit: both rows become visible at once.
TxCommit(p) ==
    /\ pc[p] = "tx_commit"
    /\ LET r == req[p]
           l == loc[p]
           its == Put(items, r.id, l.item)
           ens == IF l.enc.has THEN UpsertEnc(encs, r.id, l.enc) ELSE encs IN
       \E fail \in Faults(p) :
        IF fail
          THEN /\ Rollback(p, StoreFailure(p))
               /\ UNCHANGED <<encs, snaps, orig, touched>>
          ELSE /\ items' = its
               /\ encs' = ens
               /\ lock' = Released(p)
               /\ Finish(p, Response(IF r.op = "create" THEN StatusCreated ELSE StatusOK,
                                     l.item, EmptyString))
               /\ snaps' = snaps \cup {Snapshot(its, ens, r.id)}
               /\ orig' = IF r.op = "create"
                            THEN Put(orig, r.id, [user |-> r.user, payload |-> l.payload])
                            ELSE orig
               /\ touched' = IF r.op = "update" /\ l.enc.has THEN touched \cup {r.id}
                                                              ELSE touched
    /\ UNCHANGED <<keys, clock, nextId, nreq, mode>>
    /\ UNCHANGED <<authVars, tokVars, cryptoVars, appVars>>

\* handlers.ItemHandler.GetItem: the request arrives.
GetItem(p) ==
    /\ MayStart(p)
    /\ \E u \in Clients, path \in Paths :
        LET rq == Unread("get", u, NoReq.http, path) IN
        IF ~ValidateUUID(path).ok
          THEN Answer(p, rq, ErrorResponse(StatusBadRequest))
        ELSE /\ req' = [req EXCEPT ![p] = [rq EXCEPT !.id = ValidateUUID(path).id]]
             /\ pc' = [pc EXCEPT ![p] = "get_item"]
             /\ loc' = [loc EXCEPT ![p] = [NoLoc EXCEPT !.after = "get"]]
             /\ Quiet
    /\ nreq' = nreq + 1
    /\ UNCHANGED <<items, encs, keys, lock, clock, nextId, mode, snaps, orig, touched>>
    /\ UNCHANGED <<authVars, tokVars, cryptoVars, appVars>>

\* repositories.ItemRepository.GetByID: SELECT ... FROM items.
GetItemRow(p) ==
    /\ pc[p] = "get_item"
    /\ \E fail \in Faults(p) :
        IF fail
          THEN Finish(p, StoreFailure(p))
        ELSE IF ~Owns(items, req[p].user, req[p].id)
          THEN Finish(p, ErrorResponse(StatusNotFound))
        ELSE /\ loc' = [loc EXCEPT ![p].item = items[req[p].id]]
             /\ Goto(p, "get_enc")
    /\ UNCHANGED <<items, encs, keys, lock, clock, nextId, nreq, mode, snaps, orig, touched>>
    /\ UNCHANGED <<authVars, tokVars, cryptoVars, appVars>>

\* repositories.ItemRepository.GetByID: SELECT ... FROM encrypted_data, and
\* services.ItemService.GetItem when there is nothing to decrypt.
GetEncRow(p) ==
    /\ pc[p] = "get_enc"
    /\ \E fail \in Faults(p) :
        LET i == req[p].id IN
        IF fail
          THEN Finish(p, StoreFailure(p))
        ELSE IF i \notin DOMAIN encs \/ CtLen(encs[i].data_encrypted) = 0
          THEN Finish(p, Response(StatusOK, loc[p].item, EmptyString))
          ELSE /\ loc' = [loc EXCEPT ![p].enc = [has |-> TRUE, id |-> encs[i].id,
                             data_encrypted |-> encs[i].data_encrypted,
                             data_key_encrypted |-> encs[i].data_key_encrypted]]
               /\ Goto(p, "key_load")
    /\ UNCHANGED <<items, encs, keys, lock, clock, nextId, nreq, mode, snaps, orig, touched>>
    /\ UNCHANGED <<authVars, tokVars, cryptoVars, appVars>>

\* the mutant: encrypted_data.item_id without ON DELETE CASCADE
CascadeNone(ens, i) == ens

\* item_id REFERENCES items (id) ON DELETE CASCADE
Cascade(ens, i) == Drop(ens, i)

\* handlers.ItemHandler.DeleteItem over repositories.ItemRepository.DeleteByID:
\* one DELETE, which waits for the row lock; ON DELETE CASCADE removes the
\* encrypted-data row with the item.
DeleteItem(p) ==
    /\ MayStart(p)
    /\ \E u \in Clients, path \in Paths, fail \in Faults(p) :
        LET i == ValidateUUID(path).id
            rq == [Unread("delete", u, NoReq.http, path) EXCEPT !.id = i] IN
        IF ~ValidateUUID(path).ok
          THEN /\ Answer(p, rq, ErrorResponse(StatusBadRequest))
               /\ UNCHANGED <<items, encs, touched>>
        ELSE IF fail
          THEN /\ Answer(p, rq, LoggedError(StatusInternalServerError, "delete"))
               /\ UNCHANGED <<items, encs, touched>>
        ELSE IF ~Owns(items, u, i)
          THEN /\ Answer(p, rq, ErrorResponse(StatusNotFound))
               /\ UNCHANGED <<items, encs, touched>>
        ELSE /\ i \notin DOMAIN lock
             /\ items' = Drop(items, i)
             /\ encs' = Cascade(encs, i)
             /\ touched' = touched \cup {i}
             /\ Answer(p, rq, ErrorResponse(StatusNoContent))
    /\ nreq' = nreq + 1
    /\ UNCHANGED <<keys, lock, clock, nextId, mode, snaps, orig>>
    /\ UNCHANGED <<authVars, tokVars, cryptoVars, appVars>>

\* the mutant: SELECT ... FROM items without WHERE user_id = $1
OwnedIdsAnyUser(its, u) == DOMAIN its

\* WHERE user_id = $1
OwnedIds(its, u) == {i \in DOMAIN its : its[i].user_id = u}

\* repositories.ItemRepository.ListByUser: the orders in which ORDER BY
\* updated_at DESC may return the user's rows (rows with equal updated_at
\* come in any order).
ListByUser(its, u) ==
    LET ids == OwnedIds(its, u)
        n == Cardinality(ids) IN
    {[k \in 1..n |-> its[ord[k]]] :
        ord \in {o \in [1..n -> ids] :
                    /\ \A j, k \in 1..n : o[j] = o[k] => j = k
                    /\ \A k \in 1..(n - 1) :
                          its[o[k]].updated_at >= its[o[k + 1]].updated_at}}

\* handlers.ItemHandler.ListItems: one SELECT, answered with the rows, or
\* with 500 when the query, a scan or the iteration fails.
ListItems(p) ==
    /\ MayStart(p)
    /\ \E u \in Clients, fail \in Faults(p) : \E rows \in ListByUser(items, u) :
        LET rq == [NoReq EXCEPT !.n = nreq + 1, !.op = "list", !.user = u] IN
        IF fail
          THEN Answer(p, rq, LoggedError(StatusInternalServerError, "list"))
          ELSE Answer(p, rq, [Response(StatusOK, NoItem, EmptyString)
                                EXCEPT !.items = rows])
    /\ nreq' = nreq + 1
    /\ UNCHANGED <<items, encs, keys, lock, clock, nextId, mode, snaps, orig, touched>>
    /\ UNCHANGED <<authVars, tokVars, cryptoVars, appVars>>

ItemNext ==
    \E p \in Procs :
        \/ CreateItem(p)
        \/ UpdateItem(p)
        \/ GetItem(p)
        \/ DeleteItem(p)
        \/ KeyLoad(p)
        \/ KeySave(p)
        \/ TxBegin(p)
        \/ TxItem(p)
        \/ TxEnc(p)
        \/ TxCommit(p)
        \/ GetItemRow(p)
        \/ GetEncRow(p)

ItemInit ==
    /\ items = <<>>
    /\ encs = <<>>
    /\ keys = <<>>
    /\ lock = <<>>
    /\ clock = 1
    /\ nextId = 1
    /\ pc = [p \in Procs |-> "idle"]
    /\ req = [p \in Procs |-> NoReq]
    /\ loc = [p \in Procs |-> NoLoc]
    /\ last = NoLast
    /\ nreq = 0
    /\ snaps = {}
    /\ orig = <<>>
    /\ touched = {}

----------------------------------------------------------------------------
\* The token plane: pkg/jwt over github.com/golang-jwt/jwt/v4.

\* Wall-clock time is counted in ticks; a second has TicksPerSecond of them.
TicksPerSecond == 2

Secret == "k1"            \* Generator.secret
OtherSecret == "k2"

\* jwt.NewNumericDate: t.Truncate(jwt.TimePrecision), TimePrecision = time.Second
NewNumericDate(t) == t - (t % TicksPerSecond)

\* uuid.UUID.String and other subjects
UUIDString(id) == [form |-> "uuid", id |-> id]
NotUUID == [form |-> "text", id |-> NoUser]

\* uuid.Parse
Parse(sub) == IF sub.form = "uuid" THEN [ok |-> TRUE, id |-> sub.id]
                                   ELSE [ok |-> FALSE, id |-> NoUser]

\* A token string: three well-formed segments (form "jwt") or anything else.
Token(alg, key, sub, exp, iat, nbf) ==
    [form |-> "jwt", alg |-> alg, key |-> key, sub |-> sub,
     exp |-> exp, iat |-> iat, nbf |-> nbf]
Garbage == [form |-> "garbage", alg |-> "", key |-> "", sub |-> NotUUID,
            exp |-> 0, iat |-> 0, nbf |-> 0]
NoToken == [form |-> "none", alg |-> "", key |-> "", sub |-> NotUUID,
            exp |-> 0, iat |-> 0, nbf |-> 0]

\* jwt.Generator.GenerateToken at time t
GenerateToken(secret, lifetime, userID, t) ==
    Token("HS256", secret, UUIDString(userID), NewNumericDate(t + lifetime),
          NewNumericDate(t), NewNumericDate(t))

\* token.Method.(*jwt.SigningMethodHMAC)
IsSigningMethodHMAC(alg) == alg \in {"HS256", "HS384", "HS512"}

\* jwt.RegisteredClaims.Valid at time t: exp, iat, nbf
ClaimsValid(tok, t) == t < tok.exp /\ t >= tok.iat /\ t >= tok.nbf

Invalid == [ok |-> FALSE, id |-> NoUser]

\* jwt.Generator.ValidateToken at time t
ValidateToken(secret, tok, t) ==
    IF tok.form # "jwt" THEN Invalid
    ELSE IF ~IsSigningMethodHMAC(tok.alg) THEN Invalid
    ELSE IF tok.key # secret THEN Invalid
    ELSE IF ~ClaimsValid(tok, t) THEN Invalid
    ELSE Parse(tok.sub)

\* What a client may present: the tokens issued so far, each of them signed
\* with another secret, re-signed with a non-HMAC algorithm or carrying a
\* subject that is no UUID, and a string that is no JWT.
Forged(tok) == {[tok EXCEPT !.key = OtherSecret], [tok EXCEPT !.alg = "RS256"],
                [tok EXCEPT !.alg = "none"], [tok EXCEPT !.sub = NotUUID]}
Presentable == {Garbage} \cup {r.tok : r \in issued}
                   \cup UNION {Forged(r.tok) : r \in issued}

NoVal == [called |-> FALSE, tok |-> NoToken, at |-> 0, ok |-> FALSE, id |-> NoUser]
NoMw == [called |-> FALSE, header |-> <<>>, at |-> 0, status |-> 0,
         next |-> FALSE, user |-> NoUser]
NoAuthResp == [op |-> "none", username |-> "", password |-> "", status |-> 0,
               token |-> NoToken, user_id |-> NoUser, err |-> <<>>,
               http |-> [ct |-> <<>>, body |-> ""]]

\* The history of GenerateToken calls.
Issue(tok, userID) == issued \cup {[tok |-> tok, sub |-> userID, at |-> now]}

\* time.Now() advances.
Tick ==
    /\ now < MaxTime
    /\ now' = now + 1
    /\ val' = NoVal /\ mw' = NoMw /\ authResp' = NoAuthResp
    /\ UNCHANGED <<expiration, issued, users, nauth>>
    /\ UNCHANGED <<itemVars, cryptoVars, appVars>>

\* A call of Generator.GenerateToken.
Generate ==
    /\ Cardinality(issued) < MaxTokens
    /\ \E u \in Users :
        issued' = Issue(GenerateToken(Secret, expiration, u, now), u)
    /\ val' = NoVal /\ mw' = NoMw /\ authResp' = NoAuthResp
    /\ UNCHANGED <<now, expiration, users, nauth>>
    /\ UNCHANGED <<itemVars, cryptoVars, appVars>>

\* A call of Generator.ValidateToken.
Validate ==
    /\ \E tok \in Presentable :
        LET r == ValidateToken(Secret, tok, now) IN
        val' = [called |-> TRUE, tok |-> tok, at |-> now, ok |-> r.ok, id |-> r.id]
    /\ mw' = NoMw /\ authResp' = NoAuthResp
    /\ UNCHANGED <<now, expiration, issued, users, nauth>>
    /\ UNCHANGED <<itemVars, cryptoVars, appVars>>

----------------------------------------------------------------------------
\* The Auth middleware.

\* The characters of an Authorization header: spaces, scheme words, tokens.
Space == [kind |-> "sp", word |-> "", tok |-> NoToken]
Word(w) == [kind |-> "word", word |-> w, tok |-> NoToken]
Tok(t) == [kind |-> "tok", word |-> "", tok |-> t]

\* strings.Split(s, " ")
RECURSIVE Split(_)
Split(s) ==
    IF \A i \in DOMAIN s : s[i] # Space THEN <<s>>
    ELSE LET i == CHOOSE j \in DOMAIN s :
                      s[j] = Space /\ \A k \in 1..(j - 1) : s[k] # Space
         IN <<SubSeq(s, 1, i - 1)>> \o Split(SubSeq(s, i + 1, Len(s)))

\* unicode simple case folding of the scheme words
Fold(w) == IF w \in {"Bearer", "bearer", "BEARER", "bEaReR"} THEN "bearer"
           ELSE IF w \in {"Basic", "basic"} THEN "basic"
           ELSE w

\* strings.EqualFold
EqualFold(s, t) ==
    /\ Len(s) = Len(t)
    /\ \A i \in DOMAIN s : s[i].kind = t[i].kind /\ s[i].tok = t[i].tok
                           /\ Fold(s[i].word) = Fold(t[i].word)

\* the mutant: len(parts) < 2
HeaderAcceptedLoose(parts) == Len(parts) >= 2 /\ EqualFold(parts[1], <<Word("Bearer")>>)

\* len(parts) == 2 && strings.EqualFold(parts[0], "Bearer")
HeaderAccepted(parts) == Len(parts) = 2 /\ EqualFold(parts[1], <<Word("Bearer")>>)

\* The string handed to ValidateToken, read as a token.
TokenOf(s) == IF Len(s) = 1 /\ s[1].kind = "tok" THEN s[1].tok ELSE Garbage

\* The Authorization headers of the requests.
Schemes == {"Bearer", "bearer", "bEaReR", "Basic"}
Headers ==
    {<<>>, <<Word("Bearer")>>, <<Word("Bearer"), Space>>}
    \cup {<<Word(w), Space, Tok(t)>> : w \in Schemes, t \in Presentable}
    \cup UNION {
        {<<Tok(t)>>, <<Word("Bearer"), Tok(t)>>,
         <<Word("Bearer"), Space, Space, Tok(t)>>,
         <<Word("Bearer"), Space, Tok(t), Space>>,
         <<Word("Bearer"), Space, Tok(t), Space, Word("Basic")>>,
         <<Space, Word("Bearer"), Space, Tok(t)>>,
         <<Word("Bearer"), Space, Tok(t), Tok(t)>>}
        : t \in {r.tok : r \in issued}}

Unauthorized(h) == [called |-> TRUE, header |-> h, at |-> now,
                    status |-> StatusUnauthorized, next |-> FALSE, user |-> NoUser]

\* middleware.Auth: one request through the middleware.
Auth ==
    /\ \E h \in Headers :
        LET parts == Split(h)
            r == ValidateToken(Secret, TokenOf(parts[2]), now) IN
        mw' = IF h = <<>> THEN Unauthorized(h)
              ELSE IF ~HeaderAccepted(parts) THEN Unauthorized(h)
              ELSE IF ~r.ok THEN Unauthorized(h)
              ELSE [called |-> TRUE, header |-> h, at |-> now, status |-> 0,
                    next |-> TRUE, user |-> r.id]
    /\ val' = NoVal /\ authResp' = NoAuthResp
    /\ UNCHANGED <<now, expiration, issued, users, nauth>>
    /\ UNCHANGED <<itemVars, cryptoVars, appVars>>

----------------------------------------------------------------------------
\* The auth plane: handlers.AuthHandler over services.AuthService over
\* repositories.UserRepository.

\* Go errors are chains: the outermost message first, the wrapped errors after.
NoError == <<>>
Wrap(msg, err) == <<msg>> \o err

\* errors.Is
ErrorsIs(err, target) == \E i \in DOMAIN err : err[i] = target

\* The sentinel errors.  The packages models and repositories each declare
\* their own ErrUserAlreadyExists and ErrUserNotFound with errors.New.
ModelsErrUserAlreadyExists == "models.ErrUserAlreadyExists"
ModelsErrUserNotFound == "models.ErrUserNotFound"
RepositoriesErrUserAlreadyExists == "repositories.ErrUserAlreadyExists"
RepositoriesErrUserNotFound == "repositories.ErrUserNotFound"
ErrInvalidCredentials == "services.ErrInvalidCredentials"
PgError == "pg: connection failure"

\* bcrypt.  The passwords are "x", "y", one of exactly 72 bytes ("72 bytes")
\* and that one with a z appended ("72 bytes+z", 73 bytes).
ErrPasswordTooLong == "bcrypt.ErrPasswordTooLong"

\* The key bcrypt's Blowfish setup reads from a password: its first 72 bytes.
blowfishKey(password) == IF password = "72 bytes+z" THEN "72 bytes" ELSE password

\* services.hashPassword over bcrypt.GenerateFromPassword, with the salt it
\* drew: passwords over 72 bytes are refused.
hashPassword(password, salt) ==
    IF password = "72 bytes+z"
      THEN [err |-> <<ErrPasswordTooLong>>,
            hash |-> [bcrypt |-> "", salt |-> salt]]
      ELSE [err |-> NoError,
            hash |-> [bcrypt |-> blowfishKey(password), salt |-> salt]]

\* services.comparePasswordHash over bcrypt.CompareHashAndPassword, which
\* hashes the password under the hash's salt and has no check of its length
comparePasswordHash(hashedPassword, password) ==
    hashedPassword.bcrypt = blowfishKey(password)

NoUserRow == [id |-> NoUser, username |-> "",
              password_hash |-> [bcrypt |-> "", salt |-> NoUser]]

\* uuid.New() of the n-th auth request
UserIds == <<"u1", "u2", "u3", "u4", "u5", "u6">>
NewUserId(n) == UserIds[n]

\* the mutant: users.username without UNIQUE
CreateUserNoUnique(us, user, fail) ==
    IF fail THEN [err |-> Wrap("failed to create user", <<PgError>>), users |-> us]
    ELSE [err |-> NoError, users |-> us \cup {user}]

\* repositories.UserRepository.CreateUser: username is UNIQUE
CreateUser(us, user, fail) ==
    IF fail THEN [err |-> Wrap("failed to create user", <<PgError>>), users |-> us]
    ELSE IF \E u \in us : u.username = user.username
      THEN [err |-> <<RepositoriesErrUserAlreadyExists>>, users |-> us]
    ELSE [err |-> NoError, users |-> us \cup {user}]

\* repositories.UserRepository.GetUserByUsername
GetUserByUsername(us, username, fail) ==
    IF fail THEN [err |-> Wrap("failed to get user by username", <<PgError>>),
                  user |-> NoUserRow]
    ELSE IF \E u \in us : u.username = username
      THEN [err |-> NoError, user |-> CHOOSE u \in us : u.username = username]
    ELSE [err |-> <<RepositoriesErrUserNotFound>>, user |-> NoUserRow]

\* services.AuthService.Register
Register(us, username, password, id, fail) ==
    LET hashedPassword == hashPassword(password, id)
        user == [id |-> id, username |-> username,
                 password_hash |-> hashedPassword.hash]
        c == CreateUser(us, user, fail) IN
    IF hashedPassword.err # NoError
      THEN [err |-> Wrap("failed to hash password", hashedPassword.err),
            user |-> NoUserRow, token |-> NoToken, users |-> us]
    ELSE IF c.err # NoError
      THEN [err |-> IF ErrorsIs(c.err, ModelsErrUserAlreadyExists)
                      THEN Wrap("user with username already exists", c.err)
                      ELSE Wrap("failed to create user", c.err),
            user |-> NoUserRow, token |-> NoToken, users |-> c.users]
      ELSE [err |-> NoError, user |-> user,
            token |-> GenerateToken(Secret, expiration, id, now), users |-> c.users]

\* services.AuthService.Login
Login(us, username, password, fail) ==
    LET g == GetUserByUsername(us, username, fail) IN
    IF g.err # NoError
      THEN [err |-> IF ErrorsIs(g.err, ModelsErrUserNotFound)
                      THEN <<ErrInvalidCredentials>>
                      ELSE Wrap("failed to get user", g.err),
            user |-> NoUserRow, token |-> NoToken]
    ELSE IF ~comparePasswordHash(g.user.password_hash, password)
      THEN [err |-> <<ErrInvalidCredentials>>, user |-> NoUserRow, token |-> NoToken]
    ELSE [err |-> NoError, user |-> g.user,
          token |-> GenerateToken(Secret, expiration, g.user.id, now)]

Usernames == IF mode = "edge" THEN {"", "alice"} ELSE {"", "alice", "Alice", "bob"}
Passwords == IF mode = "edge" THEN {"", "x"} ELSE {"", "x", "y", "72 bytes", "72 bytes+z"}

AuthResponse(op, username, password, status, token, id, err) ==
    [op |-> op, username |-> username, password |-> password, status |-> status,
     token |-> token, user_id |-> id, err |-> err,
     http |-> [ct |-> <<"application/json">>, body |-> "json"]]

\* validators.AuthValidator.ValidateCredentials
ValidateCredentials(login, password) == login # "" /\ password # ""

\* handlers.AuthHandler.Register: one request.
RegisterRequest ==
    /\ nauth < MaxAuth
    /\ mode = "edge" => nreq + nauth < MaxReqs
    /\ \E h \in Envelopes, username \in Usernames, password \in Passwords,
          fail \in BOOLEAN :
        LET r == Register(users, username, password, NewUserId(nauth + 1), fail) IN
        IF ~isJSON(h.ct) \/ h.body # "json"
          THEN /\ authResp' = [AuthResponse("register", "", "", StatusBadRequest,
                                            NoToken, NoUser, NoError)
                                 EXCEPT !.http = h]
               /\ UNCHANGED <<users, issued>>
        ELSE IF ~ValidateCredentials(username, password)
          THEN /\ authResp' = [AuthResponse("register", username, password,
                                  StatusBadRequest, NoToken, NoUser, NoError)
                                 EXCEPT !.http = h]
               /\ UNCHANGED <<users, issued>>
        ELSE IF r.err # NoError
          THEN /\ authResp' = [AuthResponse("register", username, password,
                                  IF ErrorsIs(r.err, ModelsErrUserAlreadyExists)
                                    THEN StatusConflict
                                    ELSE StatusInternalServerError,
                                  NoToken, NoUser, r.err) EXCEPT !.http = h]
               /\ users' = r.users
               /\ UNCHANGED issued
        ELSE /\ authResp' = [AuthResponse("register", username, password,
                                  StatusCreated, r.token, r.user.id, NoError)
                                 EXCEPT !.http = h]
             /\ users' = r.users
             /\ issued' = Issue(r.token, r.user.id)
    /\ nauth' = nauth + 1
    /\ val' = NoVal /\ mw' = NoMw
    /\ UNCHANGED <<now, expiration>>
    /\ UNCHANGED <<itemVars, cryptoVars, appVars>>

\* handlers.AuthHandler.Login: one request.
LoginRequest ==
    /\ nauth < MaxAuth
    /\ mode = "edge" => nreq + nauth < MaxReqs
    /\ \E h \in Envelopes, username \in Usernames, password \in Passwords,
          fail \in BOOLEAN :
        LET r == Login(users, username, password, fail) IN
        IF ~isJSON(h.ct) \/ h.body # "json"
          THEN /\ authResp' = [AuthResponse("login", "", "", StatusBadRequest,
                                            NoToken, NoUser, NoError)
                                 EXCEPT !.http = h]
               /\ UNCHANGED issued
        ELSE IF ~ValidateCredentials(username, password)
          THEN /\ authResp' = [AuthResponse("login", username, password,
                                  StatusBadRequest, NoToken, NoUser, NoError)
                                 EXCEPT !.http = h]
               /\ UNCHANGED issued
        ELSE IF r.err # NoError
          THEN /\ authResp' = [AuthResponse("login", username, password,
                                  IF ErrorsIs(r.err, ErrInvalidCredentials)
                                    THEN StatusUnauthorized
                                    ELSE StatusInternalServerError,
                                  NoToken, NoUser, r.err) EXCEPT !.http = h]
               /\ UNCHANGED issued
        ELSE /\ authResp' = [AuthResponse("login", username, password,
                                  StatusOK, r.token, r.user.id, NoError)
                                 EXCEPT !.http = h]
             /\ issued' = Issue(r.token, r.user.id)
    /\ nauth' = nauth + 1
    /\ val' = NoVal /\ mw' = NoMw
    /\ UNCHANGED <<now, expiration, users>>
    /\ UNCHANGED <<itemVars, cryptoVars, appVars>>

AuthInit ==
    /\ users = {}
    /\ authResp = NoAuthResp
    /\ nauth = 0

\* The token authority of the item plane's histories, where no token is used.
TokIdle ==
    /\ now = 0
    /\ expiration = MaxExpiration
    /\ issued = {}
    /\ val = NoVal
    /\ mw = NoMw

\* The token authority is configured with any lifetime.
TokInit ==
    /\ now = 0
    /\ expiration \in 0..MaxExpiration
    /\ issued = {}
    /\ val = NoVal
    /\ mw = NoMw

\* No call of crypto.Decrypt is observed.
NoCall == [key |-> MasterKey, ciphertext |-> NoCt, done |-> FALSE, res |-> DecryptError]
CryptoIdle == call = NoCall

\* The arguments of the observed calls: 32-byte keys, a 5-byte and a 16-byte
\* key; every form of the ciphertexts of the payloads under two keys.
CallKeys == {MasterKey, 1, 2, -5, -16}
CallCiphertexts ==
    {[k |-> k, pt |-> pt, form |-> f, nonce |-> <<>>] :
        k \in {MasterKey, 1}, pt \in Payloads, f \in Forms}

\* One call of crypto.Decrypt.
DecryptCall ==
    /\ ~call.done
    /\ call' = [call EXCEPT !.done = TRUE, !.res = Decrypt(call.key, call.ciphertext)]
    /\ UNCHANGED <<itemVars, authVars, tokVars, appVars>>

----------------------------------------------------------------------------
\* middleware.RequireUser: the adapter between the Auth middleware and the
\* item handlers.

\* The requests that reach RequireUser: under userIDContextKey the context
\* holds nothing, a uuid.UUID (uuid.Nil included) or a value of another type
\* (a string, also one that spells a user's id; an int).
Requests ==
    {[method |-> m, path |-> pa, ctx |-> c] :
        m \in {"GET", "POST", "PUT", "DELETE"},
        pa \in {"/api/v1/items/", "/api/v1/items/1", "/api/v1/items/2", "/api/v1/items/x"},
        c \in {[type |-> "nil", v |-> NoUser]}
              \cup {[type |-> "uuid.UUID", v |-> u] : u \in Users \cup {NoUser}}
              \cup {[type |-> "string", v |-> u] : u \in {"u1", "not-a-uuid"}}
              \cup {[type |-> "int", v |-> "1"]}}

NoRu == [called |-> FALSE, request |-> <<>>, status |-> 0, next |-> FALSE,
         id |-> NoUser, passed |-> <<>>]

\* the mutant: any value found in the context is taken for the user id
GetUserIDFromContextAnyType(ctx) ==
    IF ctx.type = "nil" THEN [id |-> NoUser, ok |-> FALSE]
    ELSE [id |-> ctx.v, ok |-> TRUE]

\* middleware.GetUserIDFromContext: ctx.Value, then the type assertion
\* val.(uuid.UUID), which yields uuid.Nil and false for another type.
GetUserIDFromContext(ctx) ==
    IF ctx.type = "nil" THEN [id |-> NoUser, ok |-> FALSE]
    ELSE IF ctx.type = "uuid.UUID" THEN [id |-> ctx.v, ok |-> TRUE]
    ELSE [id |-> NoUser, ok |-> FALSE]

\* middleware.RequireUser: one request through the adapter; `next` tells
\* whether the wrapped handler was called, `id` and `passed` with what.
RequireUser ==
    /\ \E r \in Requests :
        LET g == GetUserIDFromContext(r.ctx) IN
        ru' = IF ~g.ok
                THEN [NoRu EXCEPT !.called = TRUE, !.request = r,
                                  !.status = StatusUnauthorized]
                ELSE [NoRu EXCEPT !.called = TRUE, !.request = r, !.next = TRUE,
                                  !.id = g.id, !.passed = r]
    /\ UNCHANGED <<itemVars, authVars, tokVars, cryptoVars, app>>

----------------------------------------------------------------------------
\* App.Run: the main goroutine, the goroutine that runs ListenAndServe, the
\* signal context, the requests in flight and the database pool.

\* The most requests in flight at once.
MaxConns == 2

\* Before Run: tls = the configuration names a certificate and a key (the
\* goroutine then runs ListenAndServeTLS), main = where the main goroutine stands, listener = the
\* goroutine of ListenAndServe, lnErr = what ListenAndServe returned, ch =
\* serverErrCh (capacity 1), done = ctx.Done() is closed, stopping = Shutdown
\* was called, conns = requests in flight, shutdownErr = what Shutdown
\* returned, serverErr = Run's variable, closed = calls of db.Close, result =
\* what Run returned.
NoApp ==
    [tls |-> FALSE, main |-> "new", listener |-> "none", lnErr |-> "none", ch |-> "empty",
     done |-> FALSE, stopping |-> FALSE, conns |-> 0, shutdownErr |-> "none",
     serverErr |-> "nil", closed |-> 0, result |-> "none"]

\* The goroutine started by Run: ListenAndServe(TLS) serves until it fails
\* (at Listen or in Accept) or until Shutdown closes the listener, and its
\* error goes into serverErrCh, which has room for it.
ListenAndServe ==
    /\ app.main # "returned"
    /\ \/ /\ app.listener = "started" /\ ~app.stopping
          /\ app' = [app EXCEPT !.listener = "serving"]
       \/ /\ app.listener \in {"started", "serving"} /\ ~app.stopping
          /\ app' = [app EXCEPT !.listener = "returned", !.lnErr = "error",
                                !.ch = "error"]
       \/ /\ app.listener \in {"started", "serving"} /\ app.stopping
          /\ app' = [app EXCEPT !.listener = "returned",
                                !.lnErr = "ErrServerClosed",
                                !.ch = "ErrServerClosed"]
    /\ UNCHANGED <<itemVars, authVars, tokVars, cryptoVars, ru>>

\* signal.NotifyContext: SIGINT, SIGTERM or SIGQUIT arrives and closes
\* ctx.Done().
NotifyContext ==
    /\ app.main \notin {"new", "returned"} /\ ~app.done
    /\ app' = [app EXCEPT !.done = TRUE]
    /\ UNCHANGED <<itemVars, authVars, tokVars, cryptoVars, ru>>

\* http.Server: a request is accepted while the listener serves, and a
\* request in flight ends.
ServeHTTP ==
    /\ app.main # "returned"
    /\ \/ /\ app.listener = "serving" /\ ~app.stopping /\ app.conns < MaxConns
          /\ app' = [app EXCEPT !.conns = @ + 1]
       \/ /\ app.conns > 0
          /\ app' = [app EXCEPT !.conns = @ - 1]
    /\ UNCHANGED <<itemVars, authVars, tokVars, cryptoVars, ru>>

\* App.Run, the main goroutine: start the listener goroutine; select on
\* serverErrCh and ctx.Done() (a select with both ready takes either);
\* Shutdown returns nil once no request is in flight and the deadline's
\* error when the 10 seconds pass first; db.Close; return serverErr.
Run ==
    /\ \/ /\ app.main = "new"
          /\ \E t \in BOOLEAN :
                app' = [app EXCEPT !.tls = t, !.main = "select",
                                   !.listener = "started"]
       \/ /\ app.main = "select" /\ app.ch # "empty"
          /\ app' = [app EXCEPT
                        !.main = "close", !.ch = "empty",
                        !.serverErr = IF app.ch # "ErrServerClosed"
                                      THEN "server failed" ELSE @]
       \/ /\ app.main = "select" /\ app.done
          /\ app' = [app EXCEPT !.main = "shutdown", !.stopping = TRUE]
       \/ /\ app.main = "shutdown" /\ app.conns = 0
          /\ app' = [app EXCEPT !.main = "close", !.shutdownErr = "nil"]
       \/ /\ app.main = "shutdown" /\ app.conns > 0
          /\ app' = [app EXCEPT !.main = "close",
                                !.shutdownErr = "deadline exceeded",
                                !.serverErr = "failed to shutdown server"]
       \/ /\ app.main = "close"
          /\ app' = [app EXCEPT !.main = "returned", !.closed = @ + 1,
                                !.result = app.serverErr]
    /\ UNCHANGED <<itemVars, authVars, tokVars, cryptoVars, ru>>

\* Nothing runs around the handlers.
AppIdle == ru = NoRu /\ app = NoApp

\* Sequential histories of the item plane: no two requests overlap.
Init == ItemInit /\ mode = "seq" /\ AuthInit /\ TokIdle /\ CryptoIdle /\ AppIdle
Next == ItemNext \/ \E p \in Procs : ListItems(p)
Spec == Init /\ [][Next]_vars

\* Concurrent histories: two requests interleave statement by statement.
InitConc == ItemInit /\ mode = "conc" /\ AuthInit /\ TokIdle /\ CryptoIdle /\ AppIdle
SpecConc == InitConc /\ [][ItemNext]_vars

\* Histories of the auth plane: registrations and logins.
InitAuth == ItemInit /\ mode = "seq" /\ AuthInit /\ TokIdle /\ CryptoIdle /\ AppIdle
NextAuth == RegisterRequest \/ LoginRequest
SpecAuth == InitAuth /\ [][NextAuth]_vars

\* Histories of the handlers' boundary: requests of both planes, one after
\* the other, with the envelopes, bodies and paths the handlers refuse.
InitBoundary == ItemInit /\ mode = "edge" /\ AuthInit /\ TokIdle /\ CryptoIdle /\ AppIdle
SpecBoundary == InitBoundary /\ [][Next \/ NextAuth]_vars

\* Histories of the token plane: tokens are generated, validated and
\* presented to the middleware as time passes.
InitToken == ItemInit /\ mode = "seq" /\ AuthInit /\ TokInit /\ CryptoIdle /\ AppIdle
NextToken == Tick \/ Generate \/ Validate \/ Auth
SpecToken == InitToken /\ [][NextToken]_vars

\* Every stored ciphertext is the value Encrypt returned.
StoredSealed ==
    /\ \A u \in DOMAIN keys : keys[u].form = "sealed"
    /\ \A i \in DOMAIN encs : /\ encs[i].data_key_encrypted.form = "sealed"
                               /\ encs[i].data_encrypted.form = "sealed"

Corrupt(ciphertext, f) == [ciphertext EXCEPT !.form = f]

\* The store is damaged or tampered with behind the server, between two
\* requests: one stored ciphertext (a wrapped user key, a wrapped data key or
\* a sealed payload) is changed, truncated or emptied.
Tamper ==
    /\ mode = "tamper"
    /\ \A p \in Procs : Idle(p)
    /\ StoredSealed
    /\ \E f \in Forms \ {"sealed"} :
        \/ \E u \in DOMAIN keys :
              /\ keys' = [keys EXCEPT ![u] = Corrupt(@, f)]
              /\ UNCHANGED encs
        \/ \E i \in DOMAIN encs :
              /\ encs' = [encs EXCEPT ![i].data_key_encrypted = Corrupt(@, f)]
              /\ UNCHANGED keys
        \/ \E i \in DOMAIN encs :
              /\ encs' = [encs EXCEPT ![i].data_encrypted = Corrupt(@, f)]
              /\ UNCHANGED keys
    /\ Quiet
    /\ UNCHANGED <<items, lock, clock, nextId, pc, req, loc, nreq, mode, snaps, orig, touched>>
    /\ UNCHANGED <<authVars, tokVars, cryptoVars, appVars>>

\* Sequential histories of one user over a store that is tampered with.
InitTamper == ItemInit /\ mode = "tamper" /\ AuthInit /\ TokIdle /\ CryptoIdle /\ AppIdle
NextTamper == ItemNext \/ Tamper
SpecTamper == InitTamper /\ [][NextTamper]_vars

\* Calls of crypto.Decrypt on every pair of the arguments.
InitCrypto ==
    /\ ItemInit /\ mode = "seq" /\ AuthInit /\ TokIdle /\ AppIdle
    /\ call \in {[NoCall EXCEPT !.key = k, !.ciphertext = c] :
                    k \in CallKeys, c \in CallCiphertexts}
NextCrypto == DecryptCall
SpecCrypto == InitCrypto /\ [][NextCrypto]_vars

\* Requests through RequireUser, one after the other.
SpecRequire == Init /\ [][RequireUser]_vars

\* One execution of App.Run with its goroutine, the signals and the requests.
SpecRun == Init /\ [][Run \/ ListenAndServe \/ NotifyContext \/ ServeHTTP]_vars

----------------------------------------------------------------------------
\* Properties of the item plane.

\* C1: in a sequential history, once CreateItem(U, P) has succeeded with id I,
\* a GetItem(U, I) that no payload-carrying update and no delete of I precedes
\* and whose reads of the item, the encrypted-data row and the key record the
\* store served answers 200 with the item I and exactly the payload P; an
\* empty P comes back as the empty string.
C1_CreateThenGet ==
    \A i \in DOMAIN orig :
        (last.req.op = "get" /\ last.req.id = i /\ last.req.user = orig[i].user
            /\ i \notin touched
            /\ last.resp.err \notin {"get_item", "get_enc", "key_load", "key_save"})
        => /\ last.resp.status = StatusOK
           /\ last.resp.item.id = i
           /\ decodeBase64(last.resp.data) = [ok |-> TRUE, bytes |-> orig[i].payload]
           /\ orig[i].payload = <<>> => last.resp.data = EmptyString

\* A non-empty payload read back from the second item the store holds.
C1_Witness ==
    /\ last.req.op = "get"
    /\ last.req.id \in DOMAIN orig
    /\ last.req.user = orig[last.req.id].user
    /\ last.req.id \notin touched
    /\ orig[last.req.id].payload = <<1>>
    /\ last.resp.data = B64(<<1>>)
    /\ Cardinality(DOMAIN orig) = 2
    /\ last.req.id = 2

\* C2: GetItem(U, I) on an item that exists but belongs to another user is
\* answered exactly as GetItem on an id that was never created: when the
\* store served the query for the item, 404 with no metadata and no payload.
C2_ForeignGetIsNotFound ==
    (last.req.op = "get"
        /\ last.resp.err # "get_item"
        /\ (last.req.id \notin DOMAIN items \/ items[last.req.id].user_id # last.req.user))
    => last.resp = ErrorResponse(StatusNotFound)

\* A user asked for another user's item, which holds a payload.
C2_Witness ==
    /\ last.req.op = "get"
    /\ last.req.id \in DOMAIN items
    /\ items[last.req.id].user_id # last.req.user
    /\ last.req.id \in DOMAIN encs
    /\ last.resp.status = StatusNotFound

\* C3: an UpdateItem or DeleteItem of user U on an item of another user V
\* leaves V's item row and encrypted-data row as they were, also when the
\* update carries a new payload, and is answered 404 (400 when the body is
\* rejected before the store is asked, 500 when the payload does not decode or
\* the store fails).
C3_ForeignWriteRefused ==
    [][ \A i \in DOMAIN items :
          (last'.req.op \in {"update", "delete"} /\ last'.req.id = i
              /\ items[i].user_id # last'.req.user)
          => /\ items' = items
             /\ encs' = encs
             /\ last'.resp.status \in {StatusBadRequest, StatusNotFound,
                                       StatusInternalServerError}
             /\ (last'.resp.status # StatusBadRequest /\ last'.resp.err = "")
                   => last'.resp = ErrorResponse(StatusNotFound) ]_vars

\* An update with a new payload on another user's item, which holds a payload,
\* was answered 404.
C3_Witness ==
    /\ last.req.op = "update"
    /\ last.req.data = Some(B64(<<2>>))
    /\ last.req.id \in DOMAIN items
    /\ items[last.req.id].user_id # last.req.user
    /\ last.req.id \in DOMAIN encs
    /\ PlainOf(encs[last.req.id]) = <<1>>
    /\ last.resp.status = StatusNotFound

\* C5: the item row and the encrypted-data row of a create or update with a
\* payload change in one step or not at all, whatever step fails before the
\* commit and whatever other request runs; the tables never hold a ciphertext
\* without its item, an item whose create was not answered 201, or an item
\* created with a payload without its ciphertext.
C5_Atomic ==
    [][ /\ \A i \in DOMAIN encs' : i \in DOMAIN items'
        /\ \A i \in DOMAIN items' :
              /\ i \in DOMAIN orig'
              /\ orig'[i].payload # <<>> => i \in DOMAIN encs'
        /\ \A p \in Procs :
              (pc[p] \in {"tx_begin", "tx_item", "tx_enc", "tx_commit"}
                  /\ pc'[p] # pc[p] /\ loc[p].enc.has)
              => LET i == req[p].id IN
                 (i \in DOMAIN items' /\ (i \notin DOMAIN items \/ items'[i] # items[i]))
                 <=> (i \in DOMAIN encs' /\ (i \notin DOMAIN encs \/ encs'[i] # encs[i]))
      ]_vars

\* A create with a payload failed after its item statement and left no row.
C5_Witness ==
    /\ last.req.op = "create"
    /\ last.req.data = Some(B64(<<1>>))
    /\ last.resp.err \in {"tx_enc", "tx_commit"}
    /\ last.req.id \notin DOMAIN items
    /\ last.req.id \notin DOMAIN encs

\* C6: the key record of a user holds the key of the request that saved last,
\* and a GetItem that read a data key sealed under another user key than the
\* recorded one is answered 500, never 404 and never with a payload.
C6_KeyRace ==
    [][ \A p \in Procs :
          /\ (pc[p] = "key_save" /\ pc'[p] # "key_save"
                 /\ ~(last'.req.n = req[p].n /\ last'.resp.err = "key_save"))
             => keys'[req[p].user] = Encrypt(MasterKey, loc[p].userKey, <<req[p].n, "user key">>).ct
          /\ (pc[p] = "key_load" /\ req[p].op = "get" /\ pc'[p] = "idle"
                 /\ req[p].user \in DOMAIN keys
                 /\ loc[p].enc.data_key_encrypted.k # keys[req[p].user].pt)
             => /\ last'.req = req[p]
                /\ last'.resp.status = StatusInternalServerError
                /\ last'.resp.item = NoItem
                /\ last'.resp.data = EmptyString
      ]_vars

\* Two creates of one user both succeeded under different user keys, and the
\* GetItem of the one whose key was overwritten was answered 500.
C6_Witness ==
    /\ last.req.op = "get"
    /\ last.resp.status = StatusInternalServerError
    /\ last.req.id \in DOMAIN encs
    /\ last.req.user \in DOMAIN keys
    /\ encs[last.req.id].data_key_encrypted.k # keys[last.req.user].pt
    /\ \E j \in DOMAIN encs :
          /\ j # last.req.id
          /\ j \in DOMAIN orig /\ last.req.id \in DOMAIN orig
          /\ orig[j].user = last.req.user
          /\ encs[j].data_key_encrypted.k = keys[last.req.user].pt

\* C7: a GetItem answered 200 returns the metadata and the payload of one
\* committed state of the item, also when an update or a delete of the item
\* runs at the same time.
C7_GetLinearizable ==
    (last.req.op = "get" /\ last.resp.status = StatusOK)
    => \E s \in snaps : s.item = last.resp.item /\ B64(s.data) = last.resp.data

----------------------------------------------------------------------------
\* Properties of the auth and token planes.

\* C4: the Auth middleware calls the next handler exactly when the
\* Authorization header is a scheme word that equals "Bearer" up to case, one
\* space and a token that ValidateToken accepts at that time, and the context
\* then carries the subject of that token; in every other case (no header,
\* another scheme, more or fewer parts, a token that is invalid or expired)
\* it answers 401, calls nothing and no user id is set.
C4_AuthGate ==
    mw.called =>
        LET h == mw.header
            bearer == /\ Len(h) = 3
                      /\ h[1].kind = "word"
                      /\ h[1].word \in {"Bearer", "bearer", "BEARER", "bEaReR"}
                      /\ h[2] = Space
                      /\ h[3].kind = "tok"
            r == ValidateToken(Secret, h[3].tok, mw.at)
        IN  /\ mw.next <=> (bearer /\ r.ok)
            /\ mw.next => (mw.user = r.id /\ mw.user = h[3].tok.sub.id)
            /\ ~mw.next => (mw.status = StatusUnauthorized /\ mw.user = NoUser)

\* A request with the scheme written bEaReR and a valid token reached the
\* next handler as the token's user.
C4_Witness ==
    /\ mw.called
    /\ mw.next
    /\ mw.header[1] = Word("bEaReR")
    /\ mw.user \in Users
    /\ \E r \in issued : r.tok = mw.header[3].tok /\ r.sub = mw.user

\* C8: a Login with a username that no user has and a Login with the username
\* of a user and another password than theirs are answered alike: 401, the
\* service having returned ErrInvalidCredentials, without token or user id.
C8_LoginIndistinguishable ==
    (authResp.op = "login"
        /\ ValidateCredentials(authResp.username, authResp.password)
        /\ ~ErrorsIs(authResp.err, PgError)
        /\ ~\E u \in users : /\ u.username = authResp.username
                             /\ comparePasswordHash(u.password_hash, authResp.password))
    => /\ authResp.status = StatusUnauthorized
       /\ ErrorsIs(authResp.err, ErrInvalidCredentials)
       /\ authResp.token = NoToken
       /\ authResp.user_id = NoUser

\* C9: a Register of a username that a user already has is answered 409,
\* adds no user row and issues no token; a Register of a new username is
\* answered 201 with a token and the id of the row it added (the password
\* being one that bcrypt hashes, and the store being up).
C9_DuplicateRegisterConflict ==
    [][ (authResp'.op = "register"
            /\ ValidateCredentials(authResp'.username, authResp'.password)
            /\ ~ErrorsIs(authResp'.err, ErrPasswordTooLong)
            /\ ~ErrorsIs(authResp'.err, PgError))
        => IF \E u \in users : u.username = authResp'.username
             THEN /\ authResp'.status = StatusConflict
                  /\ users' = users
                  /\ issued' = issued
                  /\ authResp'.token = NoToken
             ELSE /\ authResp'.status = StatusCreated
                  /\ authResp'.token # NoToken
                  /\ \E u \in users' \ users : /\ u.id = authResp'.user_id
                                               /\ u.username = authResp'.username
      ]_vars

\* C10: ValidateToken returns the user id s exactly for a token that
\* GenerateToken(s) produced under the same secret, while the time is before
\* the issue time plus the configured lifetime; in every other case, such as
\* another secret, a non-HMAC algorithm, a string that is no JWT or a subject
\* that is no UUID, it fails and returns the nil id.
C10_ValidateExactly ==
    val.called =>
        /\ \A s \in Users :
              (val.ok /\ val.id = s)
              <=> \E r \in issued : /\ r.tok = val.tok
                                    /\ r.sub = s
                                    /\ val.at < r.at + expiration
        /\ ~val.ok => val.id = NoUser
        /\ (val.tok.form # "jwt" \/ val.tok.key # Secret
               \/ val.tok.alg \notin {"HS256", "HS384", "HS512"}
               \/ val.tok.sub.form # "uuid")
           => ~val.ok

----------------------------------------------------------------------------
\* Properties of the item plane, continued.

\* C11: a successful UpdateItem sets type, title and metadata to the request's
\* value exactly where the request supplies the field (a supplied empty string
\* empties the field), leaves the other ones and, when data_base64 is absent,
\* the stored payload as they were, never changes id, user_id or created_at,
\* and returns the row it stored.
C11_PartialUpdate ==
    [][ (last'.req.op = "update" /\ last'.resp.status = StatusOK)
        => LET r == last'.req
               i == r.id
           IN  /\ i \in DOMAIN items /\ i \in DOMAIN items'
               /\ items'[i].type = (IF r.type.has THEN r.type.val ELSE items[i].type)
               /\ items'[i].title = (IF r.title.has THEN r.title.val ELSE items[i].title)
               /\ items'[i].metadata =
                      (IF r.metadata.has THEN r.metadata.val ELSE items[i].metadata)
               /\ items'[i].id = items[i].id
               /\ items'[i].user_id = items[i].user_id
               /\ items'[i].created_at = items[i].created_at
               /\ ~r.data.has => /\ (i \in DOMAIN encs <=> i \in DOMAIN encs')
                                 /\ i \in DOMAIN encs => encs'[i] = encs[i]
               /\ last'.resp.item = items'[i]
      ]_vars

\* An update that supplied an empty title and a new metadata emptied the
\* title, kept the type and kept the payload.
C11_Witness ==
    /\ last.req.op = "update"
    /\ last.resp.status = StatusOK
    /\ last.req.title = Some("")
    /\ last.req.metadata = Some("m2")
    /\ items[last.req.id].title = ""
    /\ items[last.req.id].metadata = "m2"
    /\ items[last.req.id].type = "text"
    /\ last.req.id \in DOMAIN encs
    /\ PlainOf(encs[last.req.id]) = <<1>>

\* C12: every encrypted-data row belongs to an existing item and no two rows
\* share an id; a successful UpdateItem whose payload decodes to at least one
\* byte leaves the
\* item with one row holding the new payload under a new data key, which is
\* the row the item had (same row id) when it had one; and a GetItem answered
\* 200 returns the payload the item's row holds, so never a replaced one.
C12_ReplacedInPlace ==
    [][ /\ \A i \in DOMAIN encs' :
              /\ i \in DOMAIN items'
              /\ \A j \in DOMAIN encs' : encs'[i].id = encs'[j].id => i = j
        /\ (last'.req.op = "update" /\ last'.resp.status = StatusOK
               /\ last'.req.data.has /\ decodeBase64(last'.req.data.val).bytes # <<>>)
           => LET i == last'.req.id IN
              /\ i \in DOMAIN encs'
              /\ PlainOf(encs'[i]) = decodeBase64(last'.req.data.val).bytes
              /\ i \in DOMAIN encs
                    => /\ encs'[i].id = encs[i].id
                       /\ encs'[i].data_key_encrypted # encs[i].data_key_encrypted
                       /\ encs'[i].data_encrypted.k # encs[i].data_encrypted.k
        /\ (last'.req.op = "get" /\ last'.resp.status = StatusOK)
           => last'.resp.data =
                  (IF last'.req.id \in DOMAIN encs' THEN B64(PlainOf(encs'[last'.req.id]))
                                                    ELSE EmptyString)
      ]_vars

\* An item created with payload <<1>> and updated with payload <<2>> was read
\* back with payload <<2>>.
C12_Witness ==
    /\ last.req.op = "get"
    /\ last.resp.status = StatusOK
    /\ last.req.id \in DOMAIN orig
    /\ orig[last.req.id].payload = <<1>>
    /\ last.resp.data = B64(<<2>>)

\* C13: a DeleteItem answered 204 leaves neither the item row nor the
\* encrypted-data row of the id; the rows of a deleted id never come back;
\* and every later GetItem, UpdateItem or DeleteItem on the id, by any user,
\* is answered 404 (an update 400 when its body is rejected, 500 when its
\* payload does not decode or the store fails).
C13_DeletedStaysDeleted ==
    [][ \A i \in DOMAIN orig :
          /\ (last'.req.op = "delete" /\ last'.req.id = i
                 /\ last'.resp.status = StatusNoContent)
             => (i \notin DOMAIN items' /\ i \notin DOMAIN encs')
          /\ i \notin DOMAIN items
             => /\ i \notin DOMAIN items' /\ i \notin DOMAIN encs'
                /\ (last'.req.op \in {"get", "update", "delete"} /\ last'.req.id = i)
                   => /\ last'.resp.status \in {StatusBadRequest, StatusNotFound,
                                                StatusInternalServerError}
                      /\ (last'.resp.status # StatusBadRequest /\ last'.resp.err = "")
                            => last'.resp = ErrorResponse(StatusNotFound)
      ]_vars

\* The owner asked for an item that was created with a payload and then
\* deleted, and was answered 404.
C13_Witness ==
    /\ last.req.op = "get"
    /\ last.req.id \in DOMAIN orig
    /\ orig[last.req.id].payload = <<1>>
    /\ last.req.user = orig[last.req.id].user
    /\ last.req.id \notin DOMAIN items
    /\ last.req.id \notin DOMAIN encs
    /\ last.resp.status = StatusNotFound

\* C14: a ListItems(U) whose query the store served is answered 200 with the
\* rows of exactly the items U
\* owns now, each once, as metadata without payload, ordered by updated_at
\* descending; and the item a user created or updated last has the greatest
\* updated_at, so it is listed first.
C14_ListOwnedNewestFirst ==
    [][ /\ (last'.req.op = "list" /\ last'.resp.err # "list")
           => LET rows == last'.resp.items
                  u == last'.req.user IN
              /\ last'.resp.status = StatusOK
              /\ last'.resp.data = EmptyString
              /\ {rows[k] : k \in DOMAIN rows}
                     = {items[i] : i \in {j \in DOMAIN items : items[j].user_id = u}}
              /\ \A j, k \in DOMAIN rows : rows[j].id = rows[k].id => j = k
              /\ \A k \in DOMAIN rows :
                    DOMAIN rows[k] = {"id", "user_id", "type", "title", "metadata",
                                      "created_at", "updated_at"}
              /\ \A j, k \in DOMAIN rows : j < k => rows[j].updated_at >= rows[k].updated_at
        /\ (last'.req.op \in {"create", "update"}
               /\ last'.resp.status \in {StatusOK, StatusCreated})
           => \A j \in DOMAIN items' \ {last'.req.id} :
                  items'[j].updated_at < items'[last'.req.id].updated_at
      ]_vars

\* A user who created two items was listed both, the later one first, while
\* the list held no item of the other user.
C14_Witness ==
    /\ last.req.op = "list"
    /\ Len(last.resp.items) = 2
    /\ last.resp.items[1].id = 2
    /\ last.resp.items[2].id = 1
    /\ last.resp.items[1].updated_at > last.resp.items[2].updated_at

\* C15: whenever no request is in progress, a key record exists for user U
\* if and only if some item of U was committed with a payload; a payload
\* request that fails leaves no key record for a user who had none.
C15_KeyIffPayloadStored ==
    (\A p \in Procs : Idle(p))
    => \A u \in Users :
          u \in DOMAIN keys <=> \E s \in snaps : s.item.user_id = u /\ s.data # <<>>

\* C16: every successful update of an item stores an updated_at strictly
\* greater than the one the item held until then (the creation's or the
\* previously committed update's), also when the transactions overlap.
C16_UpdatedAtIncreases ==
    [][ (/\ last'.req.op = "update"
         /\ last'.resp.status = StatusOK
         /\ last'.req.id \in DOMAIN items
         /\ last'.req.id \in DOMAIN items')
        => items'[last'.req.id].updated_at > items[last'.req.id].updated_at
      ]_vars

\* C17: every stored item has a type in {credential, text, binary, card}; a
\* create with another type (the empty one included) and an update that
\* supplies another type are answered 400 in their first step, before any
\* call of the key store or the item store, and change no stored state.
C17_TypeClosed ==
    [][ /\ \A i \in DOMAIN items' :
              items'[i].type \in {"credential", "text", "binary", "card"}
        /\ (/\ last'.req.op \in {"create", "update"}
            /\ last'.req.type.has
            /\ last'.req.type.val \notin {"credential", "text", "binary", "card"})
           => /\ last'.resp = ErrorResponse(StatusBadRequest)
              /\ \A p \in Procs : pc[p] = "idle"
              /\ UNCHANGED <<items, encs, keys>>
      ]_vars

\* An item whose type an update set to card was then sent an update with an
\* unknown type, which was refused and left the type.
C17_Witness ==
    /\ last.req.op = "update"
    /\ last.req.type = Some("bogus")
    /\ last.resp.status = StatusBadRequest
    /\ last.req.id \in DOMAIN items
    /\ items[last.req.id].type = "card"

\* C18: a create or update whose data_base64 is non-empty and not valid
\* base64 (and whose type and title are acceptable) is answered 400 and
\* writes no item row, no encrypted-data row and no key record.
C18_BadBase64IsBadRequest ==
    [][ (/\ last'.req.op \in {"create", "update"}
         /\ last'.req.data = Some(BadB64)
         /\ last'.req.type.has
               => last'.req.type.val \in {"credential", "text", "binary", "card"}
         /\ last'.req.op = "create" => last'.req.title # Some(""))
        => /\ last'.resp.status = StatusBadRequest
           /\ UNCHANGED <<items, encs, keys>>
      ]_vars

\* C20: Decrypt returns a failure value, without crashing and without a
\* plaintext, when the key has an invalid size, when the ciphertext is
\* shorter than the 12-byte nonce (the empty one included), and when the tag
\* does not verify (another key, or a ciphertext that was changed).
C20_DecryptFailsCleanly ==
    (/\ call.done
     /\ \/ KeyLen(call.key) \notin {16, 24, 32}
        \/ call.ciphertext.form \in {"short", "empty"}
        \/ call.ciphertext.form \in {"modified", "cut"}
        \/ call.ciphertext.k # call.key)
    => /\ ~call.res.panic
       /\ ~call.res.ok
       /\ call.res.pt = <<>>

\* C19: a GetItem of an item that has an encrypted-data row is answered 500
\* whenever the user's wrapped key does not open under the master key, the
\* wrapped data key does not open under the user key, or the sealed payload
\* does not open under the data key.
C19_DecryptFailureIs500 ==
    [][ (/\ last'.req.op = "get"
         /\ last'.req.id \in DOMAIN items
         /\ items[last'.req.id].user_id = last'.req.user
         /\ last'.req.id \in DOMAIN encs
         /\ last'.req.user \in DOMAIN keys
         /\ LET e == encs[last'.req.id]
                w == keys[last'.req.user] IN
            \/ w.form # "sealed" \/ w.k # MasterKey
            \/ e.data_key_encrypted.form # "sealed" \/ e.data_key_encrypted.k # w.pt
            \/ e.data_encrypted.form # "sealed"
            \/ e.data_encrypted.k # e.data_key_encrypted.pt)
        => last'.resp.status = StatusInternalServerError
      ]_vars

\* C24: every item id moves through Absent, MetadataOnly and WithPayload
\* only as the state machine says, a payload being what data_base64 decodes
\* to when that is at least one byte: a successful create leads from Absent
\* to MetadataOnly (no payload) or WithPayload (payload), a successful update
\* without a new payload keeps the state and one with a new payload leads to
\* WithPayload, a successful delete leads to Absent; nothing leads from
\* WithPayload to MetadataOnly, and a step that is not the success of a
\* request on the id leaves the id's state.
C24_ItemStateMachine ==
    [][ LET before(i) == IF i \notin DOMAIN items THEN "Absent"
                         ELSE IF i \in DOMAIN encs THEN "WithPayload"
                         ELSE "MetadataOnly"
            after(i) == IF i \notin DOMAIN items' THEN "Absent"
                        ELSE IF i \in DOMAIN encs' THEN "WithPayload"
                        ELSE "MetadataOnly"
            r == last'.req
            ok == last'.resp.status \in {StatusOK, StatusCreated, StatusNoContent}
            payload == r.data.has /\ decodeBase64(r.data.val).bytes # <<>>
        IN  \A i \in DOMAIN items \cup DOMAIN items' \cup DOMAIN encs \cup DOMAIN encs'
                     \cup {r.id} :
              /\ ~(before(i) = "WithPayload" /\ after(i) = "MetadataOnly")
              /\ ~(ok /\ r.id = i /\ r.op \in {"create", "update", "delete"})
                    => after(i) = before(i)
              /\ (ok /\ r.id = i /\ r.op = "create")
                    => /\ before(i) = "Absent"
                       /\ after(i) = IF payload THEN "WithPayload" ELSE "MetadataOnly"
              /\ (ok /\ r.id = i /\ r.op = "update")
                    => /\ before(i) # "Absent"
                       /\ after(i) = IF payload THEN "WithPayload" ELSE before(i)
              /\ (ok /\ r.id = i /\ r.op = "delete")
                    => /\ before(i) # "Absent"
                       /\ after(i) = "Absent"
      ]_vars

\* C28: an update whose data_base64 is present and empty is not refused by
\* the validation, never reaches the key store, writes no encrypted-data row
\* and no key record, and leaves the payload the item has; a get of an item
\* answers with the payload its encrypted-data row holds.
C28_EmptyDataKeepsPayload ==
    [][ /\ \A p \in Procs :
              (req[p].op = "update" /\ req[p].data = Some(EmptyString))
              => /\ pc[p] \notin {"key_load", "key_save"}
                 /\ ~loc[p].enc.has
                 /\ UNCHANGED <<encs, keys>>
        /\ (last'.req.op = "update" /\ last'.req.data = Some(EmptyString))
              => /\ last'.resp.status # StatusBadRequest
                 /\ UNCHANGED <<encs, keys>>
        /\ (last'.req.op = "get" /\ last'.resp.status = StatusOK
               /\ last'.req.id \in DOMAIN encs)
              => last'.resp.data = B64(encs[last'.req.id].data_encrypted.pt)
      ]_vars

\* An item created with a payload was sent an update with an empty
\* data_base64, which succeeded and left the payload of the create.
C28_Witness ==
    /\ last.req.op = "update"
    /\ last.req.data = Some(EmptyString)
    /\ last.resp.status = StatusOK
    /\ last.req.id \in DOMAIN encs
    /\ last.req.id \in DOMAIN orig
    /\ orig[last.req.id].payload # <<>>
    /\ encs[last.req.id].data_encrypted.pt = orig[last.req.id].payload

\* C30: in a sequential history a key record, once written, is never
\* overwritten or removed by any later step of any user's request, and no
\* step of a GetItem or of a ListItems writes the key store or the item store.
C30_KeyWrittenOnce ==
    [][ /\ \A u \in DOMAIN keys : u \in DOMAIN keys' /\ keys'[u] = keys[u]
        /\ ((\E p \in Procs : req[p].op = "get") \/ last'.req.op \in {"get", "list"})
           => UNCHANGED <<keys, items, encs>>
      ]_vars

\* Both users hold a key record, and a GetItem that had to load its user's
\* key answered with the decrypted payload.
C30_Witness ==
    /\ last.req.op = "get"
    /\ last.resp.status = StatusOK
    /\ last.resp.data # EmptyString
    /\ DOMAIN keys = Users

\* C25: once two updates that both carry a payload for one item (created
\* without payload) have both succeeded, in whatever interleaving, the
\* encrypted-data row holds the payload and the data key of one request, and
\* a GetItem can open it: the data key is sealed under the user key that the
\* user's key record holds.
C25_PairFromOneRequest ==
    \A i \in DOMAIN encs :
      (/\ \A p \in Procs : Idle(p)
       /\ last.req.op = "update" /\ last.req.id = i
       /\ last.req.data.has /\ last.req.data.val # EmptyString
       /\ last.resp.status = StatusOK
       /\ i \in DOMAIN orig /\ orig[i].payload = <<>>
       /\ \E s1, s2 \in snaps :
              /\ s1.item.id = i /\ s2.item.id = i
              /\ s1.data # <<>> /\ s2.data # <<>>
              /\ s1.item.updated_at # s2.item.updated_at)
      => LET e == encs[i]
             u == items[i].user_id IN
         /\ e.data_encrypted.k = e.data_key_encrypted.pt
         /\ u \in DOMAIN keys
         /\ keys[u].k = MasterKey
         /\ e.data_key_encrypted.k = keys[u].pt

\* C29: updates of one item that supply disjoint fields all take effect,
\* whatever their interleaving and commit order: once an update that set the
\* title and an update that set the metadata have both committed, the item
\* holds the new title and the new metadata.
C29_NoLostUpdate ==
    \A i \in DOMAIN items :
      \A s1, s2 \in snaps :
        (/\ s1.item.id = i /\ s2.item.id = i
         /\ s1.item.title = "t2"
         /\ s2.item.metadata = "m2")
        => /\ items[i].title = "t2"
           /\ items[i].metadata = "m2"

\* A title-only and a metadata-only update of one item overlapped (the one
\* that began first committed last) and the item holds both new values.
C29_Witness ==
    \E i \in DOMAIN items :
      /\ items[i].title = "t2"
      /\ items[i].metadata = "m2"
      /\ i \notin DOMAIN encs
      /\ \E s \in snaps : s.item.id = i /\ s.item.updated_at > items[i].updated_at

\* C23: a login with the name of a registered user that the store serves is
\* answered 200 exactly when the password is the registered one; the token of
\* a successful register or login validates to the id of the row that the
\* register of that name created; a failed login carries no user id and no
\* token.
C23_LoginIffPassword ==
    [][ /\ (/\ authResp'.op = "login"
            /\ authResp'.username # "" /\ authResp'.password # ""
            /\ ~ErrorsIs(authResp'.err, PgError))
           => \A row \in users :
                row.username = authResp'.username
                => /\ authResp'.status = StatusOK
                        <=> row.password_hash.bcrypt = authResp'.password
                   /\ authResp'.status = StatusOK
                        => /\ authResp'.user_id = row.id
                           /\ ValidateToken(Secret, authResp'.token, now)
                                  = [ok |-> TRUE, id |-> row.id]
        /\ (authResp'.op = "login" /\ authResp'.status # StatusOK)
           => authResp'.user_id = NoUser /\ authResp'.token = NoToken
        /\ (authResp'.op = "register" /\ authResp'.status = StatusCreated)
           => \E row \in users' \ users :
                /\ row.username = authResp'.username
                /\ row.password_hash.bcrypt = authResp'.password
                /\ authResp'.user_id = row.id
                /\ ValidateToken(Secret, authResp'.token, now) = [ok |-> TRUE, id |-> row.id]
      ]_vars

\* C26: whatever the order in which the INSERTs of the Register requests of
\* one username reach the store, no two user rows share a username (names
\* that differ in case are different names); a Register succeeds only when no
\* row of the name existed and it adds the one row of that name, so at most
\* one of them succeeds and holds a token, and after a Register whose
\* password bcrypt hashed and whose INSERT the store served exactly one row of
\* the name exists.
C26_UsernameUnique ==
    [][ /\ \A a, b \in users' : a.username = b.username => a = b
        /\ users \subseteq users'
        /\ (authResp'.op = "register" /\ authResp'.status = StatusCreated)
           => /\ ~\E row \in users : row.username = authResp'.username
              /\ authResp'.token # NoToken
        /\ (authResp'.op = "register" /\ authResp'.status # StatusCreated)
           => /\ authResp'.token = NoToken
              /\ users' = users
        /\ (/\ authResp'.op = "register"
            /\ authResp'.status # StatusBadRequest
            /\ ~ErrorsIs(authResp'.err, ErrPasswordTooLong)
            /\ ~ErrorsIs(authResp'.err, PgError))
           => Cardinality({row \in users' : row.username = authResp'.username}) = 1
      ]_vars

\* A second Register of a taken name was refused and changed nothing, while
\* the name that differs from it in case only is registered as well.
C26_Witness ==
    /\ authResp.op = "register"
    /\ authResp.username = "alice"
    /\ authResp.status \notin {StatusCreated, StatusBadRequest}
    /\ ~ErrorsIs(authResp.err, PgError)
    /\ \E a, b \in users : a.username = "alice" /\ b.username = "Alice"

\* C21: RequireUser calls the wrapped handler exactly when the context holds
\* a value of type uuid.UUID under the user-id key, and then with that id and
\* the request as it came; otherwise it answers 401 and calls nothing.
C21_RequireUserGate ==
    ru.called
    => /\ ru.next <=> ru.request.ctx.type = "uuid.UUID"
       /\ ru.next => /\ ru.id = ru.request.ctx.v
                     /\ ru.passed = ru.request
                     /\ ru.status = 0
       /\ ~ru.next => /\ ru.status = StatusUnauthorized
                      /\ ru.passed = <<>>
                      /\ ru.id = NoUser

\* A context holding the string that spells a user's id was answered 401.
C21_Witness ==
    /\ ru.called
    /\ ru.request.ctx = [type |-> "string", v |-> "u1"]
    /\ ru.status = StatusUnauthorized
    /\ ~ru.next

\* C27: in every execution of App.Run the pool is closed exactly once and
\* only after the server has stopped (the listener's error was received, or
\* a signal arrived and Shutdown returned), and Run returns nil only when
\* ListenAndServe returned no unexpected error and Shutdown no error.
C27_RunClosesPoolAfterStop ==
    /\ app.closed <= 1
    /\ app.main = "returned" => app.closed = 1
    /\ app.closed = 1
       => \/ app.lnErr # "none" /\ app.shutdownErr = "none"
          \/ app.done /\ app.shutdownErr # "none"
    /\ app.result = "nil"
       => app.lnErr # "error" /\ app.shutdownErr \in {"none", "nil"}

\* C22: every request refused at the handler boundary is answered 400 in the
\* handler, never goes on to the service and changes nothing that is stored:
\* a Content-Type without application/json or a body that does not decode on
\* register, login, create and update; an empty username or password; a
\* create with an empty type or title; an update without any field; a path
\* id that is no UUID on update, get and delete.
C22_RefusedAtBoundary ==
    [][LET NoJSON(h) == ~(\E k \in 1..Len(h.ct) : h.ct[k] = "application/json")
           Bad(r) ==
               \/ r.op \in {"create", "update"} /\ (NoJSON(r.http) \/ r.http.body # "json")
               \/ r.op \in {"update", "get", "delete"} /\ r.http.path = <<"invalid-uuid">>
               \/ r.op = "create" /\ (r.type.val = "" \/ r.title.val = "")
               \/ r.op = "update" /\ ~r.type.has /\ ~r.title.has
                                   /\ ~r.metadata.has /\ ~r.data.has
           BadAuth(a) ==
               /\ a.op \in {"register", "login"}
               /\ \/ NoJSON(a.http) \/ a.http.body # "json"
                  \/ a.username = "" \/ a.password = "" IN
       /\ \A p \in Procs : req'[p] # req[p] /\ req'[p].op # "none" => ~Bad(req'[p])
       /\ nreq' = nreq + 1 /\ Bad(last'.req)
            => /\ last'.resp = ErrorResponse(StatusBadRequest)
               /\ UNCHANGED <<items, encs, keys, nextId, users, issued>>
       /\ nauth' = nauth + 1 /\ BadAuth(authResp')
            => /\ authResp'.status = StatusBadRequest
               /\ authResp'.token = NoToken
               /\ UNCHANGED <<items, encs, keys, nextId, users, issued>>
    ]_vars

\* With a user registered and an item stored, an update of that item that
\* came as text/plain was answered 400.
C22_Witness ==
    /\ users # {}
    /\ 1 \in DOMAIN items
    /\ last.req.op = "update"
    /\ last.req.http = [ct |-> <<"text/plain">>, body |-> "json", path |-> <<"uuid", 1>>]
    /\ last.resp.status = StatusBadRequest

====
